---- MODULE Spec2Model ----
(***************************************************************************)
(* Model of the lightnet glue code: the resolution-aware BatchSampler and  *)
(* DataLoader, the resize_getitem wrapper of Dataset, the HyperParameters  *)
(* container, Lightnet.save / Lightnet.load, Compose and                   *)
(* BaseMultiTransform.  Each subsystem has its own specification over the  *)
(* shared variables; the variables of the other subsystems stay at their   *)
(* initial values.                                                         *)
(***************************************************************************)
EXTENDS Integers, Sequences, FiniteSets, TLC

VARIABLES
    \* ---- data/_dataloading.py: DataLoader + BatchSampler
    batch_size,       \* torch BatchSampler.batch_size
    drop_last,        \* torch BatchSampler.drop_last
    input_dim,        \* BatchSampler.input_dim
    new_input_dim,    \* BatchSampler.new_input_dim (None or a size)
    gen,              \* the generator made by BatchSampler.__iter__: position and index order
    batches,          \* the mini-batches yielded so far, each with the size last requested when it was asked for
    requested,        \* the size most recently returned by change_input_dim (the dataset's input_dim before any call)
    iters,            \* number of iterations started over the loader
    \* ---- data/_dataloading.py: Dataset + resize_getitem
    default_input_dim,  \* Dataset.__input_dim, set by the constructor
    override,           \* Dataset._input_dim: whether the attribute exists, and its value
    access,             \* the running wrapper call, if any: has_dim and the index handed to getitem_fn
    last,               \* how the last finished access ended, and what it returned
    \* ---- engine/_parameter.py: HyperParameters
    hp,               \* the instance __dict__: an insertion-ordered sequence of [k, v]
    file,             \* the state last written by save (<<>>: no file yet)
    objState,         \* the internal state of each network / optimizer object
    hp_last,          \* the last operation on the container: its arguments, the attribute names before it, how it ended
    hp_loaded,        \* whether load has run on this container since it was constructed
    hp_ops,           \* number of constructions and assignments made
    hp_io,            \* number of save and load calls made
    \* ---- network/module/_lightnet.py: Lightnet
    net_state,        \* self.state_dict(): the parameters of the network
    net_file,         \* the weights file: whether it exists, and the state dict in it
    net_last,         \* the last operation on the network: its arguments, what it logged, how it ended
    net_ops,          \* number of networks built and of save and load calls made
    \* ---- data/transform/util.py: Compose
    cp_list,          \* the list itself: the transforms, in order
    cp_last,          \* the last operation on the list: for a call its data and what it returned
    cp_used,          \* the list operations that have changed the list so far
    \* ---- data/transform/util.py: BaseMultiTransform
    mt_pd,            \* whether `import pandas` succeeded (pd is not None)
    mt_objs,          \* number of transform objects made so far
    mt_log,           \* the overrides invoked by the last operation, in order
    mt_last,          \* the last operation: the object, its arguments and what it returned
    mt_errors,        \* the values the last operation reported with log.error, in order
    \* ---- engine/_parameter.py: HyperParameters.from_file
    cfg,              \* the configuration file: how importing it ends, and the variables of the module
    ff_last,          \* the last from_file call: its arguments and how it ended
    \* ---- network/module/_lightnet.py: Lightnet.forward
    fw_layers,        \* self.layers
    fw_last,          \* the last operation on the network: for forward its input and how it ended
    \* ---- models/_network_darknet.py: Darknet
    dk_input,         \* width and height of the image given to the network
    dk_last,          \* the last operation: for a run of the base layers the size that leaves them
    \* ---- models/_network_yolt.py: Yolt
    yl_last,          \* the last construction of a Yolt: its arguments and how it ended
    \* ---- data/_dataloading.py: DataLoader.__init__
    dl_last           \* the last construction of a DataLoader: the call, the dataset's input_dim, the samplers it got

ldVars == <<batch_size, drop_last, input_dim, new_input_dim, gen, batches, requested, iters>>
dsVars == <<default_input_dim, override, access, last>>

hpVars == <<hp, file, objState, hp_last, hp_loaded, hp_ops, hp_io>>

netVars == <<net_state, net_file, net_last, net_ops>>

cpVars == <<cp_list, cp_last, cp_used>>

mtVars == <<mt_pd, mt_objs, mt_log, mt_last, mt_errors>>

ffVars == <<cfg, ff_last>>

fwVars == <<fw_layers, fw_last>>

dkVars == <<dk_input, dk_last>>

ylVars == <<yl_last>>

dlVars == <<dl_last>>

vars == <<ldVars, dsVars, hpVars, netVars, cpVars, mtVars, ffVars, fwVars, dkVars, ylVars, dlVars>>

\* what the operations of one subsystem leave alone: the other subsystems
notLd == <<dsVars, hpVars, netVars, cpVars, mtVars, ffVars, fwVars, dkVars, ylVars, dlVars>>
notDs == <<ldVars, hpVars, netVars, cpVars, mtVars, ffVars, fwVars, dkVars, ylVars, dlVars>>
notHp == <<ldVars, dsVars, netVars, cpVars, mtVars, ffVars, fwVars, dkVars, ylVars, dlVars>>
notNet == <<ldVars, dsVars, hpVars, cpVars, mtVars, ffVars, fwVars, dkVars, ylVars, dlVars>>
notCp == <<ldVars, dsVars, hpVars, netVars, mtVars, ffVars, fwVars, dkVars, ylVars, dlVars>>
notMt == <<ldVars, dsVars, hpVars, netVars, cpVars, ffVars, fwVars, dkVars, ylVars, dlVars>>
notFf == <<ldVars, dsVars, hpVars, netVars, cpVars, mtVars, fwVars, dkVars, ylVars, dlVars>>
notFw == <<ldVars, dsVars, hpVars, netVars, cpVars, mtVars, ffVars, dkVars, ylVars, dlVars>>
notDk == <<ldVars, dsVars, hpVars, netVars, cpVars, mtVars, ffVars, fwVars, ylVars, dlVars>>
notYl == <<ldVars, dsVars, hpVars, netVars, cpVars, mtVars, ffVars, fwVars, dkVars, dlVars>>
notDl == <<ldVars, dsVars, hpVars, netVars, cpVars, mtVars, ffVars, fwVars, dkVars, ylVars>>

\* Python None, where a size is expected
None == <<>>

(***************************************************************************)
(* Bounds of the loader model.                                             *)
(***************************************************************************)
MaxBatches == 3
MaxIters == 2

\* sizes are (width, height) pairs
DefaultDim == <<2, 2>>
\* change_input_dim arguments: an int or a (w, h) tuple, and None or a (min, max) range
Multiples == {[isint |-> TRUE, m |-> <<1, 1>>], [isint |-> FALSE, m |-> <<1, 2>>]}
RandomRanges == {[none |-> TRUE, lo |-> 1, hi |-> 1], [none |-> FALSE, lo |-> 1, hi |-> 2]}

\* orders in which the sampler produces the indices of a dataset of three samples:
\* that of a SequentialSampler, and two of a RandomSampler
SequentialOrder == <<0, 1, 2>>
Orders == {SequentialOrder, <<2, 0, 1>>, <<1, 2, 0>>}

\* BatchSampler.__set_input_dim: a pending size becomes the active one
set_input_dim(dim, pending) ==
    IF pending # None THEN [dim |-> <<pending[1], pending[2]>>, pending |-> None]
    ELSE [dim |-> dim, pending |-> pending]

\* the code of __iter__ before its loop, run by the first request on a new generator
IterPrologue(dim, pending) == set_input_dim(dim, pending)

\* the code of __iter__ after a yield, run when the generator is resumed
IterResumeNoSet(dim, pending) == [dim |-> dim, pending |-> pending]
IterResume(dim, pending) == set_input_dim(dim, pending)

\* the list built at the yield: the active size prepended to every index
BatchFirstStale(dim, idxs) ==
    [i \in 1 .. Len(idxs) |-> <<IF i = 1 THEN input_dim ELSE dim, idxs[i]>>]
Batch(dim, idxs) == [i \in 1 .. Len(idxs) |-> <<dim, idxs[i]>>]

\* torch BatchSampler.__iter__: the next group of indices, <<>> when the sampler is exhausted
NextIndices(order, pos) ==
    LET left == Len(order) - pos
    IN  IF left >= batch_size THEN SubSeq(order, pos + 1, pos + batch_size)
        ELSE IF left > 0 /\ ~drop_last THEN SubSeq(order, pos + 1, Len(order))
        ELSE <<>>

\* DataLoader.change_input_dim: the size computed from its arguments
NewSize(multiple, rng) ==
    IF multiple.isint THEN <<rng * multiple.m[1], rng * multiple.m[1]>>
    ELSE <<rng * multiple.m[1], rng * multiple.m[2]>>

ldInit ==
    /\ batch_size \in 1 .. 2
    /\ drop_last \in BOOLEAN
    /\ input_dim = DefaultDim
    /\ new_input_dim = None
    /\ gen = [pc |-> "none", pos |-> 0, order |-> SequentialOrder]
    /\ batches = <<>>
    /\ requested = DefaultDim
    /\ iters = 0

\* the loader as constructed, never iterated
ldIdle ==
    /\ batch_size = 1
    /\ drop_last = FALSE
    /\ input_dim = DefaultDim
    /\ new_input_dim = None
    /\ gen = [pc |-> "none", pos |-> 0, order |-> SequentialOrder]
    /\ batches = <<>>
    /\ requested = DefaultDim
    /\ iters = 0

\* iter(loader): a new generator over the batch sampler; none of its code has run yet
Iter ==
    /\ iters < MaxIters
    /\ \E order \in Orders :
          gen' = [pc |-> "created", pos |-> 0, order |-> order]
    /\ iters' = iters + 1
    /\ UNCHANGED <<batch_size, drop_last, input_dim, new_input_dim, batches, requested>>
    /\ UNCHANGED notLd

\* next(generator): runs __iter__ up to its next yield, or to its end
NextBatch ==
    /\ gen.pc \in {"created", "suspended"}
    /\ Len(batches) < MaxBatches
    /\ LET s == IF gen.pc = "created" THEN IterPrologue(input_dim, new_input_dim)
                ELSE IterResume(input_dim, new_input_dim)
           idxs == NextIndices(gen.order, gen.pos)
       IN  /\ input_dim' = s.dim
           /\ new_input_dim' = s.pending
           /\ IF idxs = <<>>
              THEN /\ gen' = [gen EXCEPT !.pc = "done"]
                   /\ UNCHANGED batches
              ELSE /\ gen' = [gen EXCEPT !.pc = "suspended", !.pos = gen.pos + Len(idxs)]
                   /\ batches' = Append(batches, [batch |-> Batch(s.dim, idxs), want |-> requested])
    /\ UNCHANGED <<batch_size, drop_last, requested, iters>>
    /\ UNCHANGED notLd

\* DataLoader.change_input_dim(multiple, random_range)
change_input_dim ==
    /\ \E multiple \in Multiples, rr \in RandomRanges :
          \E rng \in (IF rr.none THEN {1} ELSE rr.lo .. rr.hi) :
             /\ new_input_dim' = NewSize(multiple, rng)
             /\ requested' = NewSize(multiple, rng)
    /\ UNCHANGED <<batch_size, drop_last, input_dim, gen, batches, iters>>
    /\ UNCHANGED notLd

(***************************************************************************)
(* Dataset and the resize_getitem wrapper.  The wrapped __getitem__ is the *)
(* one of the docstring example: it returns self.input_dim, or raises.     *)
(***************************************************************************)
\* constructor arguments: (width, height) with or without further entries
InputDimensions == {<<2, 2>>, <<4, 2, 3>>}
\* sizes a batch sampler can prepend to an index (its input_dimension defaults to None)
PairDims == {<<1, 1>>, <<1, 2>>, None}
\* indices given to the dataset: the three valid ones
DatasetIndices == {0, 1, 2}
\* an index argument: a plain int, or a (dimension, index) pair
IndexArgs == [pair : {FALSE}, dim : {None}, idx : DatasetIndices]
             \cup [pair : {TRUE}, dim : PairDims, idx : DatasetIndices]

NoAccess == [pc |-> "idle", has_dim |-> FALSE, arg |-> [pair |-> FALSE, dim |-> None, idx |-> 0], index |-> 0]

\* the input_dim property
InputDim == IF override.has THEN override.val ELSE default_input_dim

\* wrapper, up to the call of getitem_fn: a non-int index sets the override and is unpacked
WrapperEnter(arg) ==
    [ovr |-> IF arg.pair THEN [has |-> TRUE, val |-> arg.dim] ELSE override,
     has_dim |-> arg.pair,
     index |-> arg.idx]

\* wrapper, after getitem_fn has returned: the override of this access is deleted
WrapperExit(has_dim) == IF has_dim THEN [has |-> FALSE, val |-> None] ELSE override

dsInit ==
    /\ \E input_dimension \in InputDimensions : default_input_dim = SubSeq(input_dimension, 1, 2)
    /\ override = [has |-> FALSE, val |-> None]
    /\ access = NoAccess
    /\ last = [how |-> "none", ret_val |-> None]

\* the dataset as constructed with the first of the arguments, no access made
dsIdle ==
    /\ default_input_dim = <<2, 2>>
    /\ override = [has |-> FALSE, val |-> None]
    /\ access = NoAccess
    /\ last = [how |-> "none", ret_val |-> None]

\* dataset[index]: the wrapper runs up to its call of the wrapped __getitem__
GetitemCall ==
    /\ access.pc = "idle"
    /\ \E arg \in IndexArgs :
          LET w == WrapperEnter(arg)
          IN  /\ override' = w.ovr
              /\ access' = [pc |-> "running", has_dim |-> w.has_dim, arg |-> arg, index |-> w.index]
    /\ UNCHANGED <<default_input_dim, last>>
    /\ UNCHANGED notDs

\* the wrapped __getitem__ returns, and the wrapper finishes
GetitemReturn ==
    /\ access.pc = "running"
    /\ last' = [how |-> "returned", ret_val |-> InputDim]
    /\ override' = WrapperExit(access.has_dim)
    /\ access' = NoAccess
    /\ UNCHANGED default_input_dim
    /\ UNCHANGED notDs

\* the wrapped __getitem__ raises: the exception leaves the wrapper at line 79
GetitemRaise ==
    /\ access.pc = "running"
    /\ last' = [how |-> "raised", ret_val |-> None]
    /\ access' = NoAccess
    /\ UNCHANGED <<default_input_dim, override>>
    /\ UNCHANGED notDs

(***************************************************************************)
(* HyperParameters.  An attribute name is the number of its leading        *)
(* underscores and the rest; a value is a plain value, a list of names, a  *)
(* reference to an object with state_dict / load_state_dict, or the data   *)
(* such an object's state_dict() returns.                                  *)
(***************************************************************************)
MaxOps == 2
MaxIO == 4

Name(u, base) == [u |-> u, base |-> base]
\* item[1:] of a name that starts with an underscore
Strip(name) == [name EXCEPT !.u = name.u - 1]

\* self.__no_serialize and self.__init_done, as spelled in the instance __dict__
NoSerialize == Name(1, "HyperParameters__no_serialize")
InitDone == Name(1, "HyperParameters__init_done")
\* names found on the class: its methods, and the class attribute __init_done = False
ClassAttrs == {Name(0, "from_file"), Name(0, "save"), Name(0, "load"), Name(0, "to"), InitDone}

Raw(n) == [t |-> "raw", n |-> n, l |-> <<>>]
List(l) == [t |-> "list", n |-> 0, l |-> l]
Obj(id) == [t |-> "obj", n |-> id, l |-> <<>>]
StateDict(n) == [t |-> "sd", n |-> n, l |-> <<>>]

\* the objects a training holds: a network, whose load_state_dict takes strict,
\* and an optimizer, whose load_state_dict takes the state only
Objects == {1, 2}
AcceptsStrict(id) == id = 1

\* names and values given by the user, as constructor keywords or in assignments
UserNames == {Name(0, "a"), Name(1, "a"), Name(2, "a")}
UserValues == {Raw(2), Obj(1), Obj(2)}
KwargsSets == {<<>>,
               <<[k |-> Name(2, "a"), v |-> Raw(1)]>>,
               <<[k |-> Name(0, "a"), v |-> Obj(1)], [k |-> Name(1, "a"), v |-> Raw(2)]>>,
               <<[k |-> Name(1, "a"), v |-> Obj(2)], [k |-> Name(1, "batch"), v |-> Raw(1)]>>}
\* the sets of objects whose load_state_dict rejects the state it is given
FailSets == {{}, Objects}

\* a dict as a sequence of [k, v] in insertion order
Keys(d) == {d[i].k : i \in DOMAIN d}
Has(d, k) == k \in Keys(d)
Get(d, k) == d[CHOOSE i \in DOMAIN d : d[i].k = k].v
Put(d, k, v) ==
    IF Has(d, k) THEN [i \in DOMAIN d |-> IF d[i].k = k THEN [k |-> k, v |-> v] ELSE d[i]]
    ELSE Append(d, [k |-> k, v |-> v])

\* hasattr(self, k)
HasAttr(d, k) == Has(d, k) \/ k \in ClassAttrs
\* self.__init_done: the instance attribute once __init__ has set it, else the class attribute
init_done(d) == IF Has(d, InitDone) THEN Get(d, InitDone).n # 0 ELSE FALSE
\* self.__no_serialize
no_serialize(d) == Get(d, NoSerialize).l
InList(l, k) == \E i \in DOMAIN l : l[i] = k
\* self.__no_serialize.append(k)
AppendNoSerialize(d, k) == Put(d, NoSerialize, List(Append(no_serialize(d), k)))

\* __setattr__ without the test of line 72
SetAttrNoCheck(d, item, value) ==
    IF Has(d, item) \/ ~init_done(d) THEN [d |-> Put(d, item, value), exc |-> "none"]
    ELSE IF item.u > 0
    THEN [d |-> Put(AppendNoSerialize(d, Strip(item)), Strip(item), value), exc |-> "none"]
    ELSE [d |-> Put(d, item, value), exc |-> "none"]
\* __setattr__(item, value): the new __dict__, or the AttributeError of line 73
SetAttr(d, item, value) ==
    IF Has(d, item) \/ ~init_done(d) THEN [d |-> Put(d, item, value), exc |-> "none"]
    ELSE IF item.u > 0
    THEN IF Has(d, Strip(item)) THEN [d |-> d, exc |-> "AttributeError"]
         ELSE [d |-> Put(AppendNoSerialize(d, Strip(item)), Strip(item), value), exc |-> "none"]
    ELSE [d |-> Put(d, item, value), exc |-> "none"]

\* the loop of __init__ over kwargs, from its i-th keyword on
RECURSIVE CtorLoop(_, _, _)
CtorLoop(d, kwargs, i) ==
    IF i > Len(kwargs) THEN d
    ELSE LET serialize == kwargs[i].k.u = 0
             key == IF serialize THEN kwargs[i].k ELSE Strip(kwargs[i].k)
             val == kwargs[i].v
         IN  IF ~HasAttr(d, key)
             THEN LET d1 == SetAttr(d, key, val).d
                  IN  CtorLoop(IF serialize THEN d1 ELSE AppendNoSerialize(d1, key), kwargs, i + 1)
             ELSE CtorLoop(d, kwargs, i + 1)

\* HyperParameters(**kwargs): the __dict__ of the new object
Ctor(kwargs) ==
    LET d0 == SetAttr(SetAttr(SetAttr(<<>>, Name(0, "batch"), Raw(0)).d,
                              Name(0, "epoch"), Raw(0)).d,
                      NoSerialize, List(<<>>)).d
    IN  SetAttr(CtorLoop(d0, kwargs, 1), InitDone, Raw(1)).d

\* what save stores for one value: its state_dict() if it has one, else the value
SavedRaw(v) == v
Saved(v) == IF v.t = "obj" THEN StateDict(objState[v.n]) ELSE v

\* one item of the saved state; obj remembers which object a state_dict() came from (0: none)
Item(k, v) == [k |-> k, v |-> Saved(v), obj |-> IF v.t = "obj" THEN v.n ELSE 0]

\* the state dictionary built by save, from the i-th attribute on
RECURSIVE SaveLoopAll(_, _)
SaveLoopAll(d, i) ==
    IF i > Len(d) THEN <<>>
    ELSE <<Item(d[i].k, d[i].v)>> \o SaveLoopAll(d, i + 1)
RECURSIVE SaveLoop(_, _)
SaveLoop(d, i) ==
    IF i > Len(d) THEN <<>>
    ELSE IF ~InList(no_serialize(d), d[i].k)
    THEN <<Item(d[i].k, d[i].v)>> \o SaveLoop(d, i + 1)
    ELSE SaveLoop(d, i + 1)

\* the load_state_dict of a network or optimizer (torch): what the call does to the
\* object, and how it ends.  fails: the objects whose load_state_dict rejects the state
LoadStateDict(id, data, kw, os, fails) ==
    IF kw /\ ~AcceptsStrict(id) THEN [os |-> os, outcome |-> "TypeError"]
    ELSE IF data.t # "sd" THEN [os |-> os, outcome |-> IF AcceptsStrict(id) THEN "AttributeError" ELSE "TypeError"]
    ELSE IF id \in fails THEN [os |-> os, outcome |-> "RuntimeError"]
    ELSE [os |-> [os EXCEPT ![id] = data.n], outcome |-> "ok"]

\* one call of load_state_dict, as the log of calls records it
Call(kw, strict, v, outcome) == [kw |-> kw, strict |-> strict, data |-> v, outcome |-> outcome]

\* lines 180-181: the TypeError of the first call is caught and load_state_dict(v) is called
ExceptTypeError(v, first, second) ==
    [os |-> second.os, outcome |-> second.outcome,
     calls |-> <<first, Call(FALSE, FALSE, v, second.outcome)>>]

\* lines 178-181, after the first call load_state_dict(v, strict=strict) has ended
TryAnyError(id, v, strict, fails, first) ==
    IF first.outcome # "ok"
    THEN ExceptTypeError(v, Call(TRUE, strict, v, first.outcome),
                         LoadStateDict(id, v, FALSE, first.os, fails))
    ELSE [os |-> first.os, outcome |-> first.outcome,
          calls |-> <<Call(TRUE, strict, v, first.outcome)>>]
Try(id, v, strict, fails, first) ==
    IF first.outcome = "TypeError"
    THEN ExceptTypeError(v, Call(TRUE, strict, v, first.outcome),
                         LoadStateDict(id, v, FALSE, first.os, fails))
    ELSE [os |-> first.os, outcome |-> first.outcome,
          calls |-> <<Call(TRUE, strict, v, first.outcome)>>]

\* lines 178-181: load_state_dict(v, strict=strict), and load_state_dict(v) after a TypeError
Restore(id, v, strict, os, fails) == Try(id, v, strict, fails, LoadStateDict(id, v, TRUE, os, fails))

\* what load observes of one key k with saved value v: whether hasattr(self, k) held,
\* whether k was in the __dict__, whether k[1:] was, whether the attribute had
\* load_state_dict, its value before (the state, for an object), the calls made, and
\* afterwards whether attribute k holds v, and whether k[1:] holds v unserialized
Before(d, os, k) ==
    IF ~Has(d, k) THEN List(<<>>)
    ELSE IF Get(d, k).t = "obj" THEN StateDict(os[Get(d, k).n]) ELSE Get(d, k)
HoldsStripped(d, k, v) ==
    /\ k.u > 0
    /\ Has(d, Strip(k))
    /\ Get(d, Strip(k)) = v
    /\ InList(no_serialize(d), Strip(k))
Rec(d, os, k, v, restores, calls, after) ==
    [k |-> k, v |-> v, had |-> HasAttr(d, k), indict |-> Has(d, k),
     hadx |-> k.u > 0 /\ Has(d, Strip(k)), restores |-> restores, before |-> Before(d, os, k),
     calls |-> calls, holds |-> Has(after, k) /\ Get(after, k) = v,
     holdsx |-> HoldsStripped(after, k, v)]

\* line 179-181 done for the attribute k
Restored(d, os, k, v, r) ==
    [d |-> d, os |-> r.os, exc |-> IF r.outcome = "ok" THEN "none" ELSE r.outcome,
     rec |-> Rec(d, os, k, v, TRUE, r.calls, d)]

\* lines 183 and 185: setattr(self, k, v) done
Assigned(d, os, k, v, a) ==
    [d |-> a.d, os |-> os, exc |-> a.exc, rec |-> Rec(d, os, k, v, FALSE, <<>>, a.d)]

\* lines 175-185, for one key of the loaded state: the new __dict__ and object states,
\* how it ended, and what was observed
HandleKey(d, os, k, v, strict, fails) ==
    IF HasAttr(d, k) /\ Has(d, k) /\ Get(d, k).t = "obj"
    THEN Restored(d, os, k, v, Restore(Get(d, k).n, v, strict, os, fails))
    ELSE Assigned(d, os, k, v, SetAttr(d, k, v))

\* the loop of load over the items of the loaded state, from the i-th on; an exception ends it
RECURSIVE LoadLoop(_, _, _, _, _, _, _)
LoadNext(state, i, strict, fails, trace, h) ==
    IF h.exc # "none"
    THEN [d |-> h.d, os |-> h.os, exc |-> h.exc, trace |-> Append(trace, h.rec)]
    ELSE LoadLoop(state, i + 1, h.d, h.os, strict, fails, Append(trace, h.rec))
LoadLoop(state, i, d, os, strict, fails, trace) ==
    IF i > Len(state) THEN [d |-> d, os |-> os, exc |-> "none", trace |-> trace]
    ELSE LoadNext(state, i, strict, fails, trace,
                  HandleKey(d, os, state[i].k, state[i].v, strict, fails))

Last(op, kwargs, name, value, had, exc, strict, trace) ==
    [op |-> op, kwargs |-> kwargs, name |-> name, value |-> value, had |-> had, exc |-> exc,
     strict |-> strict, trace |-> trace]

hpInit ==
    /\ \E kwargs \in KwargsSets :
          /\ hp = Ctor(kwargs)
          /\ hp_last = Last("init", kwargs, Name(0, ""), Raw(0), {}, "none", FALSE, <<>>)
    /\ file = <<>>
    /\ objState = [o \in Objects |-> 0]
    /\ hp_loaded = FALSE
    /\ hp_ops = 0
    /\ hp_io = 0

\* a container made without keywords, nothing saved
hpIdle ==
    /\ hp = Ctor(<<>>)
    /\ hp_last = Last("init", <<>>, Name(0, ""), Raw(0), {}, "none", FALSE, <<>>)
    /\ file = <<>>
    /\ objState = [o \in Objects |-> 0]
    /\ hp_loaded = FALSE
    /\ hp_ops = 0
    /\ hp_io = 0

\* HyperParameters(**kwargs): a new container (a later session); the saved file stays
HpCtor ==
    /\ hp_ops < MaxOps
    /\ \E kwargs \in KwargsSets :
          /\ hp' = Ctor(kwargs)
          /\ hp_last' = Last("init", kwargs, Name(0, ""), Raw(0), {}, "none", FALSE, <<>>)
    /\ hp_loaded' = FALSE
    /\ hp_ops' = hp_ops + 1
    /\ UNCHANGED <<file, objState, hp_io>>
    /\ UNCHANGED notHp

\* param.<name> = value, after construction
HpSetattr ==
    /\ hp_ops < MaxOps
    /\ \E name \in UserNames, value \in UserValues :
          \E r \in {SetAttr(hp, name, value)} :
             /\ hp' = r.d
             /\ hp_last' = Last("setattr", <<>>, name, value, Keys(hp), r.exc, FALSE, <<>>)
    /\ hp_ops' = hp_ops + 1
    /\ UNCHANGED <<file, objState, hp_loaded, hp_io>>
    /\ UNCHANGED notHp

\* param.save(filename)
HpSave ==
    /\ hp_io < MaxIO
    /\ file' = SaveLoop(hp, 1)
    /\ hp_last' = Last("save", <<>>, Name(0, ""), Raw(0), {}, "none", FALSE, <<>>)
    /\ hp_io' = hp_io + 1
    /\ UNCHANGED <<hp, objState, hp_loaded, hp_ops>>
    /\ UNCHANGED notHp

\* param.load(filename, strict)
HpLoad ==
    /\ hp_io < MaxIO
    /\ file # <<>>
    /\ \E strict \in BOOLEAN, fails \in FailSets :
          \E r \in {LoadLoop(file, 1, hp, objState, strict, fails, <<>>)} :
             /\ hp' = r.d
             /\ objState' = r.os
             /\ hp_last' = Last("load", <<>>, Name(0, ""), Raw(0), Keys(hp), r.exc, strict, r.trace)
    /\ hp_loaded' = TRUE
    /\ hp_io' = hp_io + 1
    /\ UNCHANGED <<file, hp_ops>>
    /\ UNCHANGED notHp

\* a training step changes the state of a network or optimizer
HpTrain ==
    /\ objState' = [o \in Objects |-> 1 - objState[o]]
    /\ hp_last' = Last("train", <<>>, Name(0, ""), Raw(0), {}, "none", FALSE, <<>>)
    /\ UNCHANGED <<hp, file, hp_loaded, hp_ops, hp_io>>
    /\ UNCHANGED notHp

(***************************************************************************)
(* Lightnet.save / Lightnet.load.  A key of a state dict, a pattern and a  *)
(* replacement are sequences of characters; in a pattern "." stands for    *)
(* any character.  A tensor is the parameter it belongs to (id) and its    *)
(* content (val).  A state dict is a sequence of [k, v] in insertion       *)
(* order.                                                                  *)
(***************************************************************************)
MaxNetOps == 3

\* the parameter names of the networks, in state_dict order
Models == {<< <<"a", ".", "w">>, <<"a", ".", "b">>, <<"b", ".", "w">> >>,
           << <<"b", ".", "w">>, <<"c", ".", "w">> >>}
Patterns == {<<>>, <<"a">>, <<"a", ".">>, <<".">>}
Replacements == {<<>>, <<"b">>}
\* a remapping tuple ('old', 'new')
Rules == {<<p, r>> : p \in Patterns, r \in Replacements}
\* the remap argument: None, or a list of remapping tuples
NoRemap == [none |-> TRUE, rules |-> <<>>]
Remaps == {NoRemap}
          \cup {[none |-> FALSE, rules |-> <<>>]}
          \cup {[none |-> FALSE, rules |-> <<r>>] : r \in Rules}
          \cup {[none |-> FALSE, rules |-> <<r, s>>] : r \in Rules, s \in Rules}
\* strict=True in the signature of load
DefaultStrict == TRUE
\* the strict argument of a load call: left out, or given
StrictArgs == {[given |-> FALSE, strict |-> DefaultStrict],
               [given |-> TRUE, strict |-> TRUE],
               [given |-> TRUE, strict |-> FALSE]}

\* state.keys()
Names(w) == {w[i].k : i \in DOMAIN w}
\* state[name]
Lookup(w, name) == w[CHOOSE i \in DOMAIN w : w[i].k = name].v
\* weights[name] = v on an OrderedDict: a present name keeps its place
Store(w, name, v) ==
    IF name \in Names(w)
    THEN [i \in DOMAIN w |-> IF w[i].k = name THEN [k |-> name, v |-> v] ELSE w[i]]
    ELSE Append(w, [k |-> name, v |-> v])

\* self.state_dict() of a freshly built network
InitState(model) == [i \in DOMAIN model |-> [k |-> model[i], v |-> [id |-> i, val |-> 0]]]

\* the pattern p matches in k, starting at position i
MatchAt(p, k, i) ==
    /\ i + Len(p) - 1 <= Len(k)
    /\ \A j \in 1..Len(p) : p[j] = "." \/ p[j] = k[i + j - 1]
\* re.match(p, k) is not None: a match at the start of k
re_match(p, k) == MatchAt(p, k, 1)
\* re.sub(p, repl, k): every non-overlapping match, left to right, replaced;
\* the empty pattern matches before every character and at the end
RECURSIVE SubFrom(_, _, _, _)
SubFrom(p, repl, k, i) ==
    IF i > Len(k) THEN (IF Len(p) = 0 THEN repl ELSE <<>>)
    ELSE IF Len(p) = 0 THEN repl \o <<k[i]>> \o SubFrom(p, repl, k, i + 1)
    ELSE IF MatchAt(p, k, i) THEN repl \o SubFrom(p, repl, k, i + Len(p))
    ELSE <<k[i]>> \o SubFrom(p, repl, k, i + 1)
re_sub(p, repl, k) == SubFrom(p, repl, k, 1)

\* the loop over the remap list without its break
RECURSIVE RemapKeyNoBreak(_, _, _, _, _)
RemapKeyNoBreak(weights, remap, j, k, v) ==
    IF j > Len(remap) THEN weights
    ELSE IF re_match(remap[j][1], k)
    THEN RemapKeyNoBreak(Store(weights, re_sub(remap[j][1], remap[j][2], k), v), remap, j + 1, k, v)
    ELSE RemapKeyNoBreak(weights, remap, j + 1, k, v)
\* for r in remap, from the j-th tuple on, for the key k with tensor v
RECURSIVE RemapKey(_, _, _, _, _)
RemapKey(weights, remap, j, k, v) ==
    IF j > Len(remap) THEN weights
    ELSE IF re_match(remap[j][1], k)
    THEN Store(weights, re_sub(remap[j][1], remap[j][2], k), v)
    ELSE RemapKey(weights, remap, j + 1, k, v)
\* for k, v in orig_weights.items(), from the i-th item on
RECURSIVE RemapLoop(_, _, _, _)
RemapLoop(orig_weights, remap, i, weights) ==
    IF i > Len(orig_weights) THEN weights
    ELSE RemapLoop(orig_weights, remap, i + 1,
                   RemapKey(weights, remap, 1, orig_weights[i].k, orig_weights[i].v))
\* the weights handed to torch.save
SavedWeights(state, remap) ==
    IF remap.none THEN state ELSE RemapLoop(state, remap.rules, 1, <<>>)

\* torch Module.load_state_dict(state, strict): the parameters found in state
\* are copied in; then, if strict, a missing or unexpected key is a RuntimeError
NetLoadStateDict(cur, state, strict) ==
    [state |-> [i \in DOMAIN cur |->
                   IF cur[i].k \in Names(state)
                   THEN [k |-> cur[i].k, v |-> [id |-> cur[i].v.id, val |-> Lookup(state, cur[i].k).val]]
                   ELSE cur[i]],
     exc |-> IF strict /\ Names(state) # Names(cur) THEN "RuntimeError" ELSE "none"]
\* log.warning('Modules not matching, performing partial update')
Warned(cur, state, strict) == ~strict /\ Names(state) # Names(cur)

NetLast(op, remap, arg, warned, exc, before) ==
    [op |-> op, remap |-> remap, given |-> arg.given, strict |-> arg.strict,
     warned |-> warned, exc |-> exc, before |-> before]
NoArg == [given |-> FALSE, strict |-> DefaultStrict]

netInit ==
    /\ \E m \in Models : net_state = InitState(m)
    /\ net_file = [exists |-> FALSE, w |-> <<>>]
    /\ net_last = NetLast("init", NoRemap, NoArg, FALSE, "none", <<>>)
    /\ net_ops = 0

\* no network built
netIdle ==
    /\ net_state = <<>>
    /\ net_file = [exists |-> FALSE, w |-> <<>>]
    /\ net_last = NetLast("init", NoRemap, NoArg, FALSE, "none", <<>>)
    /\ net_ops = 0

\* another network is built (the weights file stays)
NetNew ==
    /\ net_ops < MaxNetOps
    /\ \E m \in Models : net_state' = InitState(m)
    /\ net_last' = NetLast("init", NoRemap, NoArg, FALSE, "none", <<>>)
    /\ net_ops' = net_ops + 1
    /\ UNCHANGED net_file
    /\ UNCHANGED notNet

\* a training step changes the content of the parameters
NetTrain ==
    /\ net_state' = [i \in DOMAIN net_state |->
                        [k |-> net_state[i].k,
                         v |-> [id |-> net_state[i].v.id, val |-> 1 - net_state[i].v.val]]]
    /\ net_last' = NetLast("train", NoRemap, NoArg, FALSE, "none", <<>>)
    /\ UNCHANGED <<net_file, net_ops>>
    /\ UNCHANGED notNet

\* net.save(weights_file, remap)
NetSave ==
    /\ net_ops < MaxNetOps
    /\ \E remap \in Remaps :
          /\ net_file' = [exists |-> TRUE, w |-> SavedWeights(net_state, remap)]
          /\ net_last' = NetLast("save", remap, NoArg, FALSE, "none", net_state)
    /\ net_ops' = net_ops + 1
    /\ UNCHANGED net_state
    /\ UNCHANGED notNet

\* net.load(weights) or net.load(weights, strict)
NetLoad ==
    /\ net_ops < MaxNetOps
    /\ net_file.exists
    /\ \E arg \in StrictArgs :
          \E r \in {NetLoadStateDict(net_state, net_file.w, arg.strict)} :
             /\ net_state' = r.state
             /\ net_last' = NetLast("load", NoRemap, arg,
                                    Warned(net_state, net_file.w, arg.strict), r.exc, net_state)
    /\ net_ops' = net_ops + 1
    /\ UNCHANGED net_file
    /\ UNCHANGED notNet

(***************************************************************************)
(* Compose: a list of transforms that can be called.  The transforms are   *)
(* the three functions of the docstring example.                           *)
(***************************************************************************)
MaxLen == 3

Transforms == {"inc", "dbl", "half"}
Datas == {1, 3, 10}
\* tf(data): lambda n: n+1, lambda n: n*2, lambda n: n//2
Tf(tf, n) ==
    CASE tf = "inc" -> n + 1
      [] tf = "dbl" -> n * 2
      [] tf = "half" -> n \div 2
\* the lists handed to the constructor and to extend
Lists == {<<>>} \cup {<<t>> : t \in Transforms} \cup {<<t, u>> : t \in Transforms, u \in Transforms}
\* the index arguments of insert and del
Indices == (0 - MaxLen - 1)..(MaxLen + 1)

\* list.insert(i, x): a negative index counts from the end, an index outside the list is clamped
InsertAt(l, i, x) ==
    IF i < 0
    THEN IF i + Len(l) < 0 THEN <<x>> \o l
         ELSE SubSeq(l, 1, i + Len(l)) \o <<x>> \o SubSeq(l, i + Len(l) + 1, Len(l))
    ELSE IF i > Len(l) THEN Append(l, x)
         ELSE SubSeq(l, 1, i) \o <<x>> \o SubSeq(l, i + 1, Len(l))
\* del l[i]: IndexError outside -len .. len-1
DelRaises(l, i) == i >= Len(l) \/ i < 0 - Len(l)
DelAt(l, i) ==
    IF i < 0
    THEN SubSeq(l, 1, i + Len(l)) \o SubSeq(l, i + Len(l) + 2, Len(l))
    ELSE SubSeq(l, 1, i) \o SubSeq(l, i + 2, Len(l))

\* the loop run from the last element to the first
RECURSIVE ComposeCallBackward(_, _, _)
ComposeCallBackward(self, i, data) ==
    IF i > Len(self) THEN data
    ELSE ComposeCallBackward(SubSeq(self, 1, Len(self) - 1), i, Tf(self[Len(self)], data))
\* for tf in self: data = tf(data), from the i-th element on; return data
RECURSIVE ComposeCall(_, _, _)
ComposeCall(self, i, data) ==
    IF i > Len(self) THEN data
    ELSE ComposeCall(self, i + 1, Tf(self[i], data))

CpLast(op, data, result, exc) == [op |-> op, data |-> data, result |-> result, exc |-> exc]

cpInit ==
    /\ cp_list \in Lists
    /\ cp_last = CpLast("init", 0, 0, "none")
    /\ cp_used = {}

\* an empty Compose
cpIdle ==
    /\ cp_list = <<>>
    /\ cp_last = CpLast("init", 0, 0, "none")
    /\ cp_used = {}

\* tf.append(x)
CpAppend ==
    /\ Len(cp_list) < MaxLen
    /\ \E x \in Transforms : cp_list' = Append(cp_list, x)
    /\ cp_last' = CpLast("append", 0, 0, "none")
    /\ cp_used' = cp_used \cup {"append"}
    /\ UNCHANGED notCp

\* tf.insert(i, x)
CpInsert ==
    /\ Len(cp_list) < MaxLen
    /\ \E i \in Indices, x \in Transforms : cp_list' = InsertAt(cp_list, i, x)
    /\ cp_last' = CpLast("insert", 0, 0, "none")
    /\ cp_used' = cp_used \cup {"insert"}
    /\ UNCHANGED notCp

\* del tf[i]
CpDel ==
    /\ \E i \in Indices :
          IF DelRaises(cp_list, i)
          THEN /\ cp_list' = cp_list
               /\ cp_last' = CpLast("del", 0, 0, "IndexError")
               /\ cp_used' = cp_used
          ELSE /\ cp_list' = DelAt(cp_list, i)
               /\ cp_last' = CpLast("del", 0, 0, "none")
               /\ cp_used' = cp_used \cup {"del"}
    /\ UNCHANGED notCp

\* tf.extend(other)
CpExtend ==
    /\ \E other \in Lists :
          /\ Len(cp_list) + Len(other) <= MaxLen
          /\ cp_list' = cp_list \o other
    /\ cp_last' = CpLast("extend", 0, 0, "none")
    /\ cp_used' = cp_used \cup {"extend"}
    /\ UNCHANGED notCp

\* tf(data)
CpCall ==
    /\ \E data \in Datas : cp_last' = CpLast("call", data, ComposeCall(cp_list, 1, data), "none")
    /\ UNCHANGED <<cp_list, cp_used>>
    /\ UNCHANGED notCp

(***************************************************************************)
(* BaseMultiTransform.  A value is its runtime type (kind), which piece of *)
(* data it is (id), and the overrides that produced it (by).  The three    *)
(* overrides of a subclass return a value of the same type made by this    *)
(* object.                                                                 *)
(***************************************************************************)
MaxObjs == 3

Value(kind, id) == [kind |-> kind, id |-> id, by |-> <<>>]
\* the Python None
NoneValue == Value("None", 0)
Kinds == {"DataFrame", "PIL", "ndarray", "str"}
\* the values a caller can build: a dataframe only when pandas can be imported
Values(pd) == {Value(k, id) : k \in IF pd THEN Kinds ELSE Kinds \ {"DataFrame"}, id \in {1, 2}}

\* what the override fn of the object obj returns for v
Override(fn, obj, v) == [kind |-> v.kind, id |-> v.id, by |-> Append(v.by, [fn |-> fn, obj |-> obj])]
\* one invocation of an override
Invocation(fn, obj, v) == [fn |-> fn, obj |-> obj, arg |-> v]
Returned(res, log, err) == [res |-> res, log |-> log, err |-> err]

\* __call__ that hands a value of another type to _tf_cv
MultiCallNoFallback(pd, obj, data) ==
    IF data = NoneValue THEN Returned(NoneValue, <<>>, FALSE)
    ELSE IF pd /\ data.kind = "DataFrame"
    THEN Returned(Override("_tf_anno", obj, data), <<Invocation("_tf_anno", obj, data)>>, FALSE)
    ELSE IF data.kind = "PIL"
    THEN Returned(Override("_tf_pil", obj, data), <<Invocation("_tf_pil", obj, data)>>, FALSE)
    ELSE Returned(Override("_tf_cv", obj, data), <<Invocation("_tf_cv", obj, data)>>, FALSE)
\* __call__ with the two image branches exchanged
MultiCallSwapped(pd, obj, data) ==
    IF data = NoneValue THEN Returned(NoneValue, <<>>, FALSE)
    ELSE IF pd /\ data.kind = "DataFrame"
    THEN Returned(Override("_tf_anno", obj, data), <<Invocation("_tf_anno", obj, data)>>, FALSE)
    ELSE IF data.kind = "PIL"
    THEN Returned(Override("_tf_cv", obj, data), <<Invocation("_tf_cv", obj, data)>>, FALSE)
    ELSE IF data.kind = "ndarray"
    THEN Returned(Override("_tf_pil", obj, data), <<Invocation("_tf_pil", obj, data)>>, FALSE)
    ELSE Returned(data, <<>>, TRUE)
\* obj(data): the value returned, the overrides invoked, whether log.error was called
MultiCall(pd, obj, data) ==
    IF data = NoneValue THEN Returned(NoneValue, <<>>, FALSE)
    ELSE IF pd /\ data.kind = "DataFrame"
    THEN Returned(Override("_tf_anno", obj, data), <<Invocation("_tf_anno", obj, data)>>, FALSE)
    ELSE IF data.kind = "PIL"
    THEN Returned(Override("_tf_pil", obj, data), <<Invocation("_tf_pil", obj, data)>>, FALSE)
    ELSE IF data.kind = "ndarray"
    THEN Returned(Override("_tf_cv", obj, data), <<Invocation("_tf_cv", obj, data)>>, FALSE)
    ELSE Returned(data, <<>>, TRUE)

\* what apply returns: res_data alone, or the tuple (res_data, res_target)
Single(res_data) == [pair |-> FALSE, data |-> res_data, target |-> NoneValue]
Pair(res_data, res_target) == [pair |-> TRUE, data |-> res_data, target |-> res_target]
\* the body of apply after obj = cls(**kwargs)
Apply(pd, obj, data, target) ==
    IF target = NoneValue
    THEN [result |-> Single(MultiCall(pd, obj, data).res),
          log |-> MultiCall(pd, obj, data).log]
    ELSE [result |-> Pair(MultiCall(pd, obj, data).res, MultiCall(pd, obj, target).res),
          log |-> MultiCall(pd, obj, data).log \o MultiCall(pd, obj, target).log]

\* the values obj(data) and obj(target) in apply report with log.error
Errors(pd, obj, vs) ==
    SelectSeq(vs, LAMBDA v : MultiCall(pd, obj, v).err)

MtLast(op, obj, data, target, result) ==
    [op |-> op, obj |-> obj, data |-> data, target |-> target, result |-> result]

mtInit ==
    /\ mt_pd \in BOOLEAN
    /\ mt_objs = 0
    /\ mt_log = <<>>
    /\ mt_last = MtLast("init", 0, NoneValue, NoneValue, Single(NoneValue))
    /\ mt_errors = <<>>

\* pandas importable, no transform object made
mtIdle ==
    /\ mt_pd = TRUE
    /\ mt_objs = 0
    /\ mt_log = <<>>
    /\ mt_last = MtLast("init", 0, NoneValue, NoneValue, Single(NoneValue))
    /\ mt_errors = <<>>

\* obj = cls(**kwargs), by the user
MtNew ==
    /\ mt_objs < MaxObjs
    /\ mt_objs' = mt_objs + 1
    /\ mt_log' = <<>>
    /\ mt_last' = MtLast("new", mt_objs + 1, NoneValue, NoneValue, Single(NoneValue))
    /\ mt_errors' = <<>>
    /\ UNCHANGED mt_pd
    /\ UNCHANGED notMt

\* obj(data) on an object made before
MtCall ==
    /\ \E obj \in 1..mt_objs, data \in Values(mt_pd) \cup {NoneValue} :
          /\ mt_log' = MultiCall(mt_pd, obj, data).log
          /\ mt_last' = MtLast("call", obj, data, NoneValue, Single(MultiCall(mt_pd, obj, data).res))
          /\ mt_errors' = Errors(mt_pd, obj, <<data>>)
    /\ UNCHANGED <<mt_pd, mt_objs>>
    /\ UNCHANGED notMt

\* cls.apply(data, target, **kwargs)
MtApply ==
    /\ mt_objs < MaxObjs
    /\ \E data \in Values(mt_pd) \cup {NoneValue}, target \in Values(mt_pd) \cup {NoneValue} :
          /\ mt_log' = Apply(mt_pd, mt_objs + 1, data, target).log
          /\ mt_last' = MtLast("apply", mt_objs + 1, data, target,
                               Apply(mt_pd, mt_objs + 1, data, target).result)
          /\ mt_errors' = Errors(mt_pd, mt_objs + 1,
                                 IF target = NoneValue THEN <<data>> ELSE <<data, target>>)
    /\ mt_objs' = mt_objs + 1
    /\ UNCHANGED mt_pd
    /\ UNCHANGED notMt

(***************************************************************************)
(* HyperParameters.from_file.  A value of the configuration module is its  *)
(* type (t), which object it is (id), the keywords it holds (kw: the items *)
(* of a dict, the keywords a HyperParameters object was built from) and,   *)
(* for a callable, what calling it does (ret).                             *)
(***************************************************************************)
CfgValue(t, id, kw, ret) == [t |-> t, id |-> id, kw |-> kw, ret |-> ret]
\* the variable is not defined in the module
Absent == CfgValue("absent", 0, <<>>, "")
\* what a callable of the configuration module does when called with **kwargs
Behaviours == {"dict_of_kwargs",   \* def params(**kw): return dict(kw)
               "HyperParameters",  \* the class itself: HyperParameters(**kwargs)
               "dict_no_kwargs",   \* def params(): return {...}
               "int",              \* returns a number
               "function",         \* returns another function
               "raise"}            \* raises ValueError
CfgValues ==
    {CfgValue("HyperParameters", 1, kw, "") : kw \in {<<>>, <<[k |-> Name(0, "a"), v |-> Raw(2)]>>}}
    \cup {CfgValue("dict", 2, kw, "") : kw \in KwargsSets}
    \cup {CfgValue("function", 3, <<[k |-> Name(0, "a"), v |-> Raw(1)]>>, b) : b \in Behaviours}
    \cup {CfgValue("int", 4, <<>>, "")}
\* how importing the file ends: the module, the AttributeError of a path that
\* is no python file or of the module's own code, another error of the module's code
Imports == {"module", "no_spec", "AttributeError", "SyntaxError"}
Variables == {"params", "alt"}
Configs == {[import |-> "module", vars |-> [x \in Variables |-> IF x = "params" THEN p ELSE a]] :
                p \in CfgValues \cup {Absent}, a \in {Absent, CfgValue("dict", 2, <<>>, "")}}
           \cup {[import |-> i, vars |-> [x \in Variables |-> Absent]] : i \in Imports \ {"module"}}

\* callable(params)
Callable(v) == v.t = "function"
\* params(**kwargs): the value returned, or the exception
FnCall(v, kwargs) ==
    CASE v.ret = "dict_of_kwargs" -> [exc |-> "none", v |-> CfgValue("dict", 5, kwargs, "")]
      [] v.ret = "HyperParameters" -> [exc |-> "none", v |-> CfgValue("HyperParameters", 5, kwargs, "")]
      [] v.ret = "dict_no_kwargs" ->
            IF kwargs = <<>> THEN [exc |-> "none", v |-> CfgValue("dict", 5, v.kw, "")]
            ELSE [exc |-> "TypeError", v |-> Absent]
      [] v.ret = "int" -> [exc |-> "none", v |-> CfgValue("int", 5, <<>>, "")]
      [] v.ret = "function" -> [exc |-> "none", v |-> CfgValue("function", 5, <<>>, "int")]
      [] v.ret = "raise" -> [exc |-> "ValueError", v |-> Absent]

\* what from_file does: the exception or the object returned, whether the
\* object was made by cls(**params), the calls of the extracted value, and
\* the value the type tests saw
FromFileResult(exc, obj, made, calls, params) ==
    [exc |-> exc, obj |-> obj, made |-> made, calls |-> calls, params |-> params]
\* lines 131-136: the type tests on params
ByType(params, calls) ==
    IF params.t = "HyperParameters" THEN FromFileResult("none", params, FALSE, calls, params)
    ELSE IF params.t = "dict"
    THEN FromFileResult("none", CfgValue("HyperParameters", 0, params.kw, ""), TRUE, calls, params)
    ELSE FromFileResult("TypeError", Absent, FALSE, calls, params)
\* the type tests on the extracted value itself, which is never called
ByTypeUncalled(c, variable, kwargs) ==
    IF c.import = "module" /\ c.vars[variable] # Absent
    THEN ByType(c.vars[variable], <<>>)
    ELSE FromFileResult("ImportError", Absent, FALSE, <<>>, Absent)
\* HyperParameters.from_file(path, variable, **kwargs)
from_file(c, variable, kwargs) ==
    IF c.import \in {"no_spec", "AttributeError"}
    THEN FromFileResult("ImportError", Absent, FALSE, <<>>, Absent)
    ELSE IF c.import # "module"
    THEN FromFileResult(c.import, Absent, FALSE, <<>>, Absent)
    ELSE IF c.vars[variable] = Absent
    THEN FromFileResult("AttributeError", Absent, FALSE, <<>>, Absent)
    ELSE IF Callable(c.vars[variable])
    THEN IF FnCall(c.vars[variable], kwargs).exc # "none"
         THEN FromFileResult(FnCall(c.vars[variable], kwargs).exc, Absent, FALSE, <<kwargs>>, Absent)
         ELSE ByType(FnCall(c.vars[variable], kwargs).v, <<kwargs>>)
    ELSE ByType(c.vars[variable], <<>>)

FfLast(op, variable, kwargs, res, d) ==
    [op |-> op, variable |-> variable, kwargs |-> kwargs, res |-> res, d |-> d]
NoResult == FromFileResult("none", Absent, FALSE, <<>>, Absent)

ffInit ==
    /\ cfg \in Configs
    /\ ff_last = FfLast("init", "params", <<>>, NoResult, <<>>)

\* no configuration file read
ffIdle ==
    /\ cfg = [import |-> "no_spec", vars |-> [x \in Variables |-> Absent]]
    /\ ff_last = FfLast("init", "params", <<>>, NoResult, <<>>)

\* the user writes another configuration file
FfEdit ==
    /\ cfg' \in Configs
    /\ ff_last' = FfLast("edit", "params", <<>>, NoResult, <<>>)
    /\ UNCHANGED notFf

\* HyperParameters.from_file(path, variable, **kwargs); d is the __dict__ of
\* the object returned
FfFromFile ==
    /\ \E variable \in Variables, kwargs \in {<<>>, <<[k |-> Name(0, "a"), v |-> Raw(2)]>>} :
          \E r \in {from_file(cfg, variable, kwargs)} :
             ff_last' = FfLast("from_file", variable, kwargs, r,
                               IF r.exc = "none" THEN Ctor(r.obj.kw) ELSE <<>>)
    /\ UNCHANGED cfg
    /\ UNCHANGED notFf

(***************************************************************************)
(* Lightnet.forward.  self.layers is a container type (kind) and the       *)
(* modules it holds, in declared order (mods); the modules are functions   *)
(* on numbers.                                                             *)
(***************************************************************************)
Modules == {"double", "incr", "square"}
Inputs == {0, 1, 2}
\* module(x)
Module(m, x) ==
    CASE m = "double" -> x * 2
      [] m = "incr" -> x + 1
      [] m = "square" -> x * x
ModuleSeqs == {<<>>} \cup {<<a>> : a \in Modules} \cup {<<a, b>> : a \in Modules, b \in Modules}
              \cup {<<a, b, c>> : a \in Modules, b \in Modules, c \in Modules}
LayersOf(kind, mods) == [kind |-> kind, mods |-> mods]
\* self.layers = None, set by Lightnet.__init__
NoLayers == LayersOf("None", <<>>)
\* the attribute layers does not exist (del self.layers)
NoAttribute == LayersOf("absent", <<>>)
\* what a network can assign to self.layers
LayerValues == {LayersOf(k, mods) : k \in {"Sequential", "ModuleList", "ModuleDict", "list"}, mods \in ModuleSeqs}
               \cup {NoLayers}

Forwarded(exc, out, warned, applied) == [exc |-> exc, out |-> out, warned |-> warned, applied |-> applied]
\* x = module(x) for the modules from the i-th on: the value and the modules run
RECURSIVE RunLayers(_, _, _, _)
RunLayers(mods, i, x, applied) ==
    IF i > Len(mods) THEN [out |-> x, applied |-> applied]
    ELSE RunLayers(mods, i + 1, Module(mods[i], x), Append(applied, mods[i]))
\* forward that runs whatever self.layers holds, without the type tests
ForwardAnyLayers(layers, x) ==
    Forwarded("none", RunLayers(layers.mods, 1, x, <<>>).out, FALSE,
              RunLayers(layers.mods, 1, x, <<>>).applied)
\* Lightnet.forward(x)
Forward(layers, x) ==
    IF layers # NoAttribute
    THEN IF layers.kind = "Sequential"
         THEN Forwarded("none", RunLayers(layers.mods, 1, x, <<>>).out, FALSE,
                        RunLayers(layers.mods, 1, x, <<>>).applied)
         ELSE IF layers.kind = "ModuleList"
         THEN Forwarded("none", RunLayers(layers.mods, 1, x, <<>>).out, TRUE,
                        RunLayers(layers.mods, 1, x, <<>>).applied)
         ELSE Forwarded("NotImplementedError", x, FALSE, <<>>)
    ELSE Forwarded("NotImplementedError", x, FALSE, <<>>)

FwLast(op, x, res) == [op |-> op, x |-> x, res |-> res]
NotForwarded == Forwarded("none", 0, FALSE, <<>>)

\* Lightnet.__init__
fwInit ==
    /\ fw_layers = NoLayers
    /\ fw_last = FwLast("init", 0, NotForwarded)

fwIdle ==
    /\ fw_layers = NoLayers
    /\ fw_last = FwLast("init", 0, NotForwarded)

\* self.layers = ..., in the __init__ of a network or later
FwSetLayers ==
    /\ fw_layers' \in LayerValues
    /\ fw_last' = FwLast("set", 0, NotForwarded)
    /\ UNCHANGED notFw

\* del self.layers
FwDelLayers ==
    /\ fw_layers # NoAttribute
    /\ fw_layers' = NoAttribute
    /\ fw_last' = FwLast("del", 0, NotForwarded)
    /\ UNCHANGED notFw

\* net.forward(x)
FwForward ==
    /\ \E x \in Inputs : fw_last' = FwLast("forward", x, Forward(fw_layers, x))
    /\ UNCHANGED fw_layers
    /\ UNCHANGED notFw

(***************************************************************************)
(* Darknet.  The base layers as the constructor declares them: name, type, *)
(* kernel size, stride and padding.  A feature map is its width and        *)
(* height.                                                                 *)
(***************************************************************************)
MaxMul == 8

\* Darknet.stride
stride == 32
\* lnn.layer.Conv2dBatchReLU(in_channels, out_channels, kernel_size, stride, padding)
Conv2dBatchReLU(name, kernel, s, padding) ==
    [name |-> name, type |-> "conv", kernel |-> kernel, stride |-> s, padding |-> padding]
\* nn.MaxPool2d(kernel_size, stride)
MaxPool2d(name, kernel, s) ==
    [name |-> name, type |-> "max", kernel |-> kernel, stride |-> s, padding |-> 0]
\* self.layers[0]
BaseLayers == <<Conv2dBatchReLU("1_convbatch", 3, 1, 1),
                MaxPool2d("2_max", 2, 2),
                Conv2dBatchReLU("3_convbatch", 3, 1, 1),
                MaxPool2d("4_max", 2, 2),
                Conv2dBatchReLU("5_convbatch", 3, 1, 1),
                MaxPool2d("6_max", 2, 2),
                Conv2dBatchReLU("7_convbatch", 3, 1, 1),
                MaxPool2d("8_max", 2, 2),
                Conv2dBatchReLU("9_convbatch", 3, 1, 1),
                MaxPool2d("10_max", 2, 2),
                Conv2dBatchReLU("11_convbatch", 3, 1, 1),
                MaxPool2d("12_max", 2, 2),
                Conv2dBatchReLU("13_convbatch", 3, 1, 1)>>
\* the widths and heights of the images given to the network
Sides == {16 * k : k \in 1..MaxMul}

\* the output length of a convolution or pooling layer along one axis
OutSide(layer, n) == ((n + 2 * layer.padding - layer.kernel) \div layer.stride) + 1
\* the base layers from the i-th on, applied to a w x h map: the size that
\* leaves them, or the RuntimeError of a layer whose output would be empty
RECURSIVE RunBase(_, _, _)
RunBase(i, w, h) ==
    IF i > Len(BaseLayers) THEN [exc |-> "none", w |-> w, h |-> h]
    ELSE IF OutSide(BaseLayers[i], w) < 1 \/ OutSide(BaseLayers[i], h) < 1
    THEN [exc |-> "RuntimeError", w |-> 0, h |-> 0]
    ELSE RunBase(i + 1, OutSide(BaseLayers[i], w), OutSide(BaseLayers[i], h))

DkLast(op, res) == [op |-> op, res |-> res]
NotRun == [exc |-> "none", w |-> 0, h |-> 0]

dkInit ==
    /\ dk_input \in Sides \X Sides
    /\ dk_last = DkLast("init", NotRun)

\* no image given
dkIdle ==
    /\ dk_input = <<16, 16>>
    /\ dk_last = DkLast("init", NotRun)

\* another image
DkImage ==
    /\ dk_input' \in Sides \X Sides
    /\ dk_last' = DkLast("image", NotRun)
    /\ UNCHANGED notDk

\* self.layers[0](x)
DkBase ==
    /\ dk_last' = DkLast("base", RunBase(1, dk_input[1], dk_input[2]))
    /\ UNCHANGED dk_input
    /\ UNCHANGED notDk

(***************************************************************************)
(* Yolt.__init__.  An anchors argument is whether it is an Iterable,       *)
(* whether it can be indexed, and the types of its elements.               *)
(***************************************************************************)
MaxClasses == 4

Anchors(iterable, subscriptable, elems) ==
    [iterable |-> iterable, subscriptable |-> subscriptable, elems |-> elems]
\* the default: five (width, height) tuples
DefaultAnchors == Anchors(TRUE, TRUE, <<"tuple", "tuple", "tuple", "tuple", "tuple">>)
AnchorsArgs ==
    {DefaultAnchors,
     Anchors(TRUE, TRUE, <<"tuple">>),                   \* [(1.08, 1.19)]
     Anchors(TRUE, TRUE, <<"tuple", "tuple">>),
     Anchors(TRUE, TRUE, <<"number", "number">>),        \* [1.08, 1.19]
     Anchors(TRUE, TRUE, <<"number", "number", "number">>),
     Anchors(TRUE, TRUE, <<"number", "tuple">>),         \* [1.08, (3.42, 4.41)]
     Anchors(TRUE, TRUE, <<"tuple", "number">>),
     Anchors(TRUE, TRUE, <<>>),                          \* []
     Anchors(TRUE, FALSE, <<"number", "number">>),       \* {1.08, 1.19}
     Anchors(FALSE, FALSE, <<>>),                        \* 1.08
     Anchors(FALSE, TRUE, <<"number", "number">>),       \* a class with __getitem__ and __len__ only
     Anchors(FALSE, TRUE, <<"tuple", "tuple">>)}
InputChannels == {1, 3, 4}

\* isinstance(anchors[0], Iterable): the test, or the error of anchors[0]
FirstIsIterable(a) ==
    IF ~a.subscriptable THEN [exc |-> "TypeError", msg |-> "object is not subscriptable", is |-> FALSE]
    ELSE IF a.elems = <<>> THEN [exc |-> "IndexError", msg |-> "index out of range", is |-> FALSE]
    ELSE [exc |-> "none", msg |-> "", is |-> a.elems[1] = "tuple"]
Built(exc, msg, built, out_channels) ==
    [exc |-> exc, msg |-> msg, built |-> built, out_channels |-> out_channels]
\* lines 39-84: the parameters are stored and the layers made; out_channels is
\* the number of filters of 22_conv
BuildLayers(num_classes, anchors) ==
    Built("none", "", TRUE, Len(anchors.elems) * (5 + num_classes))
\* Yolt.__init__(num_classes, input_channels, anchors)
YoltInit(num_classes, input_channels, anchors) ==
    IF ~anchors.iterable
    THEN IF FirstIsIterable(anchors).exc # "none"
         THEN Built(FirstIsIterable(anchors).exc, FirstIsIterable(anchors).msg, FALSE, 0)
         ELSE IF ~FirstIsIterable(anchors).is
         THEN Built("TypeError", "Anchors need to be a 2D list of numbers", FALSE, 0)
         ELSE BuildLayers(num_classes, anchors)
    ELSE BuildLayers(num_classes, anchors)

YlLast(op, num_classes, input_channels, anchors, res) ==
    [op |-> op, num_classes |-> num_classes, input_channels |-> input_channels,
     anchors |-> anchors, res |-> res]

\* no Yolt made
ylInit ==
    yl_last = YlLast("init", 20, 3, DefaultAnchors, Built("none", "", FALSE, 0))

\* Yolt(num_classes, input_channels, anchors)
YoltNew ==
    /\ \E num_classes \in 1..MaxClasses, input_channels \in InputChannels, anchors \in AnchorsArgs :
          yl_last' = YlLast("new", num_classes, input_channels, anchors,
                            YoltInit(num_classes, input_channels, anchors))
    /\ UNCHANGED notYl

(***************************************************************************)
(* DataLoader.__init__ with its args and kwargs.  The parameters of the    *)
(* torch DataLoader are, in order: dataset, batch_size, shuffle, sampler,  *)
(* batch_sampler, num_workers.  A call is the number of arguments passed   *)
(* by position (nargs), the names passed by keyword (kw) and the value of  *)
(* each parameter, which is its default when it is not passed.             *)
(***************************************************************************)
ParamNames == <<"dataset", "batch_size", "shuffle", "sampler", "batch_sampler", "num_workers">>
KeywordNames == {"shuffle", "sampler", "batch_sampler"}
Defaults == [shuffle |-> "False", sampler |-> "None", batch_sampler |-> "None"]
\* the names passed by position in a call with nargs positional arguments
Positional(nargs) == {ParamNames[i] : i \in 1..nargs}
Calls ==
    {c \in [nargs : 2..6, kw : SUBSET KeywordNames, batch_size : {1, 2},
            shuffle : {"False", "True"}, sampler : {"None", "my_sampler"},
            batch_sampler : {"None", "my_batch_sampler"}] :
        /\ c.kw \cap Positional(c.nargs) = {}
        /\ \A n \in KeywordNames \ (c.kw \cup Positional(c.nargs)) : c[n] = Defaults[n]}
\* args and kwargs as __init__ receives them
ArgsOf(c) == SubSeq(<<"dataset", "batch_size", c.shuffle, c.sampler, c.batch_sampler, "0">>, 1, c.nargs)
KwargsOf(c) == [n \in c.kw |-> c[n]]

\* torch DataLoader.__init__, which binds every parameter by position or by
\* name: the ValueError of options that exclude each other
TorchRejects(c) ==
    \/ c.sampler # "None" /\ c.shuffle = "True"
    \/ c.batch_sampler # "None" /\ (c.batch_size # 1 \/ c.shuffle = "True" \/ c.sampler # "None")

\* lines 131-155: shuffle, sampler and batch_sampler as __init__ reads them
\* from args and kwargs
Selected(args, kwargs) ==
    IF Len(args) > 5
    THEN [shuffle |-> args[3], sampler |-> args[4], batch_sampler |-> args[5]]
    ELSE IF Len(args) > 4
    THEN [shuffle |-> args[3], sampler |-> args[4],
          batch_sampler |-> IF "batch_sampler" \in DOMAIN kwargs THEN kwargs["batch_sampler"] ELSE "None"]
    ELSE IF Len(args) > 3
    THEN [shuffle |-> args[3],
          sampler |-> IF "sampler" \in DOMAIN kwargs THEN kwargs["sampler"] ELSE "None",
          batch_sampler |-> IF "batch_sampler" \in DOMAIN kwargs THEN kwargs["batch_sampler"] ELSE "None"]
    ELSE [shuffle |-> IF "shuffle" \in DOMAIN kwargs THEN kwargs["shuffle"] ELSE "False",
          sampler |-> IF "sampler" \in DOMAIN kwargs THEN kwargs["sampler"] ELSE "None",
          batch_sampler |-> IF "batch_sampler" \in DOMAIN kwargs THEN kwargs["batch_sampler"] ELSE "None"]
\* a sampler object: its type, or the object given, and for a BatchSampler
\* the sampler it draws from and its input_dim
SamplerObj(type, over, dim) == [type |-> type, over |-> over, dim |-> dim]
NoSampler == SamplerObj("None", "None", None)
\* lines 158-167: self.sampler and self.batch_sampler
Sampling(sel, dim) ==
    IF sel.batch_sampler = "None"
    THEN IF sel.sampler = "None"
         THEN IF sel.shuffle = "True"
              THEN [sampler |-> SamplerObj("RandomSampler", "None", None),
                    batch_sampler |-> SamplerObj("BatchSampler", "RandomSampler", dim)]
              ELSE [sampler |-> SamplerObj("SequentialSampler", "None", None),
                    batch_sampler |-> SamplerObj("BatchSampler", "SequentialSampler", dim)]
         ELSE [sampler |-> SamplerObj(sel.sampler, "None", None),
               batch_sampler |-> SamplerObj("BatchSampler", sel.sampler, dim)]
    ELSE [sampler |-> SamplerObj(sel.sampler, "None", None),
          batch_sampler |-> SamplerObj(sel.batch_sampler, "None", None)]
\* DataLoader.__init__ with the args and kwargs of the call c, on a dataset with input_dim dim
DataLoaderInit(c, dim) ==
    IF TorchRejects(c)
    THEN [exc |-> "ValueError", sampler |-> NoSampler, batch_sampler |-> NoSampler]
    ELSE [exc |-> "none",
          sampler |-> Sampling(Selected(ArgsOf(c), KwargsOf(c)), dim).sampler,
          batch_sampler |-> Sampling(Selected(ArgsOf(c), KwargsOf(c)), dim).batch_sampler]

DlLast(op, c, dim, res) == [op |-> op, call |-> c, dim |-> dim, res |-> res]
DefaultCall == [nargs |-> 2, kw |-> {}, batch_size |-> 1, shuffle |-> "False",
                sampler |-> "None", batch_sampler |-> "None"]

\* no loader made
dlInit ==
    dl_last = DlLast("init", DefaultCall, DefaultDim,
                     [exc |-> "none", sampler |-> NoSampler, batch_sampler |-> NoSampler])

\* dl = DataLoader(dataset, ...)
DlNew ==
    /\ \E c \in Calls, dim \in {DefaultDim, <<4, 2>>} :
          dl_last' = DlLast("new", c, dim, DataLoaderInit(c, dim))
    /\ UNCHANGED notDl

LoaderNext == Iter \/ NextBatch \/ change_input_dim

LoaderInit == ldInit /\ dsIdle /\ hpIdle /\ netIdle /\ cpIdle /\ mtIdle /\ ffIdle /\ fwIdle /\ dkIdle /\ ylInit /\ dlInit

LoaderSpec == LoaderInit /\ [][LoaderNext]_vars

DatasetNext == GetitemCall \/ GetitemReturn \/ GetitemRaise

DatasetInit == dsInit /\ ldIdle /\ hpIdle /\ netIdle /\ cpIdle /\ mtIdle /\ ffIdle /\ fwIdle /\ dkIdle /\ ylInit /\ dlInit

DatasetSpec == DatasetInit /\ [][DatasetNext]_vars

HpNext == HpCtor \/ HpSetattr \/ HpSave \/ HpLoad \/ HpTrain

HpInit == hpInit /\ ldIdle /\ dsIdle /\ netIdle /\ cpIdle /\ mtIdle /\ ffIdle /\ fwIdle /\ dkIdle /\ ylInit /\ dlInit

HpSpec == HpInit /\ [][HpNext]_vars

NetNext == NetNew \/ NetTrain \/ NetSave \/ NetLoad

NetInit == netInit /\ ldIdle /\ dsIdle /\ hpIdle /\ cpIdle /\ mtIdle /\ ffIdle /\ fwIdle /\ dkIdle /\ ylInit /\ dlInit

NetSpec == NetInit /\ [][NetNext]_vars

ComposeNext == CpAppend \/ CpInsert \/ CpDel \/ CpExtend \/ CpCall

ComposeInit == cpInit /\ ldIdle /\ dsIdle /\ hpIdle /\ netIdle /\ mtIdle /\ ffIdle /\ fwIdle /\ dkIdle /\ ylInit /\ dlInit

ComposeSpec == ComposeInit /\ [][ComposeNext]_vars

MultiNext == MtNew \/ MtCall \/ MtApply

MultiInit == mtInit /\ ldIdle /\ dsIdle /\ hpIdle /\ netIdle /\ cpIdle /\ ffIdle /\ fwIdle /\ dkIdle /\ ylInit /\ dlInit

MultiSpec == MultiInit /\ [][MultiNext]_vars

FromFileNext == FfEdit \/ FfFromFile

FromFileInit == ffInit /\ ldIdle /\ dsIdle /\ hpIdle /\ netIdle /\ cpIdle /\ mtIdle /\ fwIdle /\ dkIdle /\ ylInit /\ dlInit

FromFileSpec == FromFileInit /\ [][FromFileNext]_vars

ForwardNext == FwSetLayers \/ FwDelLayers \/ FwForward

ForwardInit == fwInit /\ ldIdle /\ dsIdle /\ hpIdle /\ netIdle /\ cpIdle /\ mtIdle /\ ffIdle /\ dkIdle /\ ylInit /\ dlInit

ForwardSpec == ForwardInit /\ [][ForwardNext]_vars

DarknetNext == DkImage \/ DkBase

DarknetInit == dkInit /\ ldIdle /\ dsIdle /\ hpIdle /\ netIdle /\ cpIdle /\ mtIdle /\ ffIdle /\ fwIdle /\ ylInit /\ dlInit

DarknetSpec == DarknetInit /\ [][DarknetNext]_vars

YoltNext == YoltNew

YoltSpecInit == ylInit /\ ldIdle /\ dsIdle /\ hpIdle /\ netIdle /\ cpIdle /\ mtIdle /\ ffIdle /\ fwIdle /\ dkIdle /\ dlInit

YoltSpec == YoltSpecInit /\ [][YoltNext]_vars

DataLoaderNext == DlNew

DataLoaderSpecInit ==
    dlInit /\ ldIdle /\ dsIdle /\ hpIdle /\ netIdle /\ cpIdle /\ mtIdle /\ ffIdle /\ fwIdle /\ dkIdle /\ ylInit

DataLoaderSpec == DataLoaderSpecInit /\ [][DataLoaderNext]_vars

(***************************************************************************)
(* C1: every mini-batch yielded by BatchSampler.__iter__ carries one       *)
(* dimension in all of its (dimension, index) pairs, whatever              *)
(* change_input_dim calls were made before or between batch requests.      *)
(***************************************************************************)
C1_BatchOneDim ==
    \A b \in 1 .. Len(batches) :
       \A i, j \in 1 .. Len(batches[b].batch) :
          batches[b].batch[i][1] = batches[b].batch[j][1]

\* a batch of two samples yielded right after a size change was applied
C1_Witness ==
    \E b \in 2 .. Len(batches) :
       /\ Len(batches[b].batch) = 2
       /\ batches[b].batch[1][1] # batches[b - 1].batch[1][1]
       /\ batches[b].batch[2][1] # DefaultDim

(***************************************************************************)
(* C2: a size requested with change_input_dim is applied on the next       *)
(* mini-batch: every batch yielded so far carries the size that was the    *)
(* most recently requested one when that batch was asked for (also the     *)
(* first batch of a later iteration), and batches already yielded keep     *)
(* their dimension.                                                        *)
(***************************************************************************)
C2_AppliedOnNextBatch ==
    \A b \in 1 .. Len(batches) :
       \A i \in 1 .. Len(batches[b].batch) :
          batches[b].batch[i][1] = batches[b].want

\* a size change made between two batches of one iteration, and one made before a later iteration
C2_Witness ==
    /\ iters = 2
    /\ \E b \in 2 .. Len(batches) :
          /\ batches[b].want # batches[b - 1].want
          /\ batches[b].batch[1][1] = batches[b].want
    /\ Len(batches) >= 3
    /\ gen.pc = "suspended" /\ gen.pos = batch_size
    /\ batches[Len(batches)].want # batches[Len(batches) - 1].want

(***************************************************************************)
(* C3: for a Dataset whose __getitem__ is wrapped by resize_getitem: while *)
(* an access with a (dimension, index) pair runs, input_dim is that        *)
(* dimension and the wrapped function got the bare index; while an access  *)
(* with a plain integer runs, input_dim is the constructor default; once   *)
(* an access has returned, input_dim is the constructor default again.     *)
(***************************************************************************)
C3_OverrideDuringAccess ==
    /\ (access.pc = "running" /\ access.arg.pair) =>
           (InputDim = access.arg.dim /\ access.index = access.arg.idx)
    /\ (access.pc = "running" /\ ~access.arg.pair) =>
           (InputDim = default_input_dim /\ access.index = access.arg.idx)
    /\ (access.pc = "idle" /\ last.how = "returned") => InputDim = default_input_dim

\* the state save would write now
SaveState == SaveLoop(hp, 1)

\* the name under which a constructor keyword or an assignment stores its value
Target(name) == IF name.u > 0 THEN Strip(name) ELSE name

\* the names that are attributes when __init__ comes to its i-th keyword
AttrsAtKwarg(kwargs, i) ==
    {Name(0, "batch"), Name(0, "epoch"), NoSerialize} \cup ClassAttrs
    \cup {Target(kwargs[j].k) : j \in 1 .. (i - 1)}

\* the value is stored as x, and saved exactly if the name had no leading underscore
StoredAs(x, value, serialized) ==
    /\ Has(hp, x)
    /\ Get(hp, x) = value
    /\ Has(SaveState, x) <=> serialized

C4_Kwargs ==
    (hp_last.op = "init") =>
        \A i \in 1 .. Len(hp_last.kwargs) :
           Target(hp_last.kwargs[i].k) \notin AttrsAtKwarg(hp_last.kwargs, i) =>
              StoredAs(Target(hp_last.kwargs[i].k), hp_last.kwargs[i].v, hp_last.kwargs[i].k.u = 0)

(***************************************************************************)
(* C4, as stated: in a state reached by construction and assignments, a    *)
(* value given under the name _x when no attribute x exists is stored and  *)
(* readable as x and save writes no entry for x; a value given under a     *)
(* name x without leading underscore when no attribute x exists is stored  *)
(* as x and save writes an entry for x.                                    *)
(***************************************************************************)
C4_AsStated ==
    /\ C4_Kwargs
    /\ (hp_last.op = "setattr" /\ ~hp_loaded /\ Target(hp_last.name) \notin hp_last.had) =>
          StoredAs(Target(hp_last.name), hp_last.value, hp_last.name.u = 0)

(***************************************************************************)
(* C4, amended: as stated, where for an assignment after construction the  *)
(* name _x itself must not be an attribute either (an existing attribute   *)
(* _x, stored by an earlier __x, is overwritten instead).                  *)
(***************************************************************************)
C4_UnderscoreNotSerialized ==
    /\ C4_Kwargs
    /\ (/\ hp_last.op = "setattr" /\ ~hp_loaded
        /\ Target(hp_last.name) \notin hp_last.had
        /\ hp_last.name \notin hp_last.had) =>
          StoredAs(Target(hp_last.name), hp_last.value, hp_last.name.u = 0)

\* param._a = Obj(2) on a container without a: stored as a, raised nothing, not saved
C4_Witness ==
    /\ hp_last.op = "setattr" /\ ~hp_loaded
    /\ hp_last.name = Name(1, "a")
    /\ Name(0, "a") \notin hp_last.had
    /\ Name(1, "a") \notin hp_last.had
    /\ hp_last.exc = "none"
    /\ Get(hp, Name(0, "a")) = Obj(2)
    /\ ~Has(SaveState, Name(0, "a"))
    /\ Has(SaveState, Name(0, "batch"))

(***************************************************************************)
(* C5: save stores, for each serialized attribute, its state_dict() if it  *)
(* has one and the raw value otherwise; loading that file into a container *)
(* that holds the same attributes (the same objects, values and states     *)
(* possibly changed since) restores every serialized attribute to the      *)
(* saved state: through load_state_dict for the values that had            *)
(* state_dict, by assignment for raw values.                               *)
(***************************************************************************)
C5_SaveStores ==
    (hp_last.op = "save") =>
        /\ \A i \in DOMAIN hp :
              IF InList(no_serialize(hp), hp[i].k) THEN ~Has(file, hp[i].k)
              ELSE /\ Has(file, hp[i].k)
                   /\ Get(file, hp[i].k) =
                         (IF hp[i].v.t = "obj" THEN StateDict(objState[hp[i].v.n]) ELSE hp[i].v)
        /\ Keys(file) \subseteq Keys(hp)

\* the container holds the attributes the file was saved from
SameAttributes ==
    /\ Len(hp_last.trace) = Len(file)
    /\ \A i \in DOMAIN file :
          /\ file[i].k \in hp_last.had
          /\ IF file[i].obj # 0 THEN Get(hp, file[i].k) = Obj(file[i].obj)
             ELSE ~hp_last.trace[i].restores

C5_RoundTrip ==
    /\ C5_SaveStores
    /\ (hp_last.op = "load" /\ hp_last.exc = "none" /\ SameAttributes) =>
          \A i \in DOMAIN file :
             IF file[i].obj # 0
             THEN /\ objState[Get(hp, file[i].k).n] = file[i].v.n
                  /\ hp_last.trace[i].calls # <<>>
             ELSE /\ Get(hp, file[i].k) = file[i].v
                  /\ hp_last.trace[i].calls = <<>>

\* a load that restored an optimizer whose state had changed since the save, and a raw value
C5_Witness ==
    /\ hp_last.op = "load" /\ hp_last.exc = "none" /\ SameAttributes
    /\ \E i \in DOMAIN file :
          /\ file[i].obj # 0
          /\ hp_last.trace[i].before # file[i].v
          /\ Len(hp_last.trace[i].calls) = 2
    /\ \E i \in DOMAIN file :
          /\ file[i].k = Name(0, "batch")
          /\ Get(hp, file[i].k) = file[i].v

\* the items of the loaded state are handled in order, up to the first exception
TraceFollowsFile ==
    /\ Len(hp_last.trace) <= Len(file)
    /\ \A i \in DOMAIN hp_last.trace :
          hp_last.trace[i].k = file[i].k /\ hp_last.trace[i].v = file[i].v
    /\ (hp_last.exc = "none") => Len(hp_last.trace) = Len(file)

\* load_state_dict(v, strict=strict) first, load_state_dict(v) only after a TypeError,
\* and whatever is raised last leaves load
CallsAsClaimed(i) ==
    LET rec == hp_last.trace[i]
        n == Len(rec.calls)
    IN  /\ n \in {1, 2}
        /\ rec.calls[1].kw /\ rec.calls[1].strict = hp_last.strict /\ rec.calls[1].data = rec.v
        /\ (n = 2) <=> (rec.calls[1].outcome = "TypeError")
        /\ (n = 2) => (~rec.calls[2].kw /\ rec.calls[2].data = rec.v)
        /\ IF rec.calls[n].outcome = "ok" THEN i < Len(hp_last.trace) \/ hp_last.exc = "none"
           ELSE i = Len(hp_last.trace) /\ hp_last.exc = rec.calls[n].outcome

(***************************************************************************)
(* C6, as stated: load handles every key of the loaded state so: if the    *)
(* container has an attribute of that name with load_state_dict, it is     *)
(* called with the saved value and strict=<strict>, again with the value   *)
(* alone only if that raised TypeError, and any other exception            *)
(* propagates; otherwise (no load_state_dict, or no such attribute) the    *)
(* saved value is assigned to the attribute.                               *)
(***************************************************************************)
C6_AsStated ==
    (hp_last.op = "load") =>
        /\ TraceFollowsFile
        /\ \A i \in DOMAIN hp_last.trace :
              IF hp_last.trace[i].restores THEN CallsAsClaimed(i)
              ELSE hp_last.trace[i].calls = <<>> /\ hp_last.trace[i].holds

(***************************************************************************)
(* C6, amended: as stated, except that the assignment goes through         *)
(* __setattr__: for a key _x that is not an attribute of the container the *)
(* saved value is stored as x and marked non-serialized, or AttributeError *)
(* leaves load if x is already an attribute.                               *)
(***************************************************************************)
C6_LoadPerKey ==
    (hp_last.op = "load") =>
        /\ TraceFollowsFile
        /\ \A i \in DOMAIN hp_last.trace :
              LET rec == hp_last.trace[i]
              IN  IF rec.restores THEN CallsAsClaimed(i)
                  ELSE /\ rec.calls = <<>>
                       /\ IF rec.indict \/ rec.k.u = 0 THEN rec.holds
                          ELSE IF rec.hadx
                          THEN i = Len(hp_last.trace) /\ hp_last.exc = "AttributeError"
                          ELSE rec.holdsx

\* a load that restored an optimizer with the second call, after assigning the plain values
C6_Witness ==
    /\ hp_last.op = "load"
    /\ \E i \in DOMAIN hp_last.trace :
          /\ hp_last.trace[i].restores
          /\ Len(hp_last.trace[i].calls) = 2
          /\ hp_last.trace[i].calls[1].outcome = "TypeError"
          /\ hp_last.trace[i].calls[2].outcome = "ok"
    /\ \E i \in DOMAIN hp_last.trace :
          ~hp_last.trace[i].restores /\ hp_last.trace[i].holds

\* the remap list of the last save, and the state dict it ran over
SavedRules == net_last.remap.rules
Matches(k) == {j \in DOMAIN SavedRules : re_match(SavedRules[j][1], k)}
\* the first tuple in list order whose pattern matches k
FirstMatch(k) == CHOOSE j \in Matches(k) : \A h \in Matches(k) : j <= h
\* the name that tuple produces for k
ExportName(k) == re_sub(SavedRules[FirstMatch(k)][1], SavedRules[FirstMatch(k)][2], k)
\* the names under which the tensor of the i-th key is in the file
ExportedAs(i) == {net_file.w[j].k : j \in {h \in DOMAIN net_file.w : net_file.w[h].v = net_state[i].v}}
\* the keys after the i-th that get the same name as the i-th
LaterSameName(i) ==
    {h \in DOMAIN net_state : h > i /\ Matches(net_state[h].k) # {}
                              /\ ExportName(net_state[h].k) = ExportName(net_state[i].k)}

(***************************************************************************)
(* C7, as stated: after save with a remap list, for every key of the state *)
(* dict: if no pattern matches the key its tensor is under no name in the  *)
(* file; otherwise its tensor is in the file under the name produced by    *)
(* the first matching tuple, and under no other (later tuples are not      *)
(* applied).                                                               *)
(***************************************************************************)
C7_AsStated ==
    (net_last.op = "save" /\ ~net_last.remap.none) =>
        \A i \in DOMAIN net_state :
            IF Matches(net_state[i].k) = {} THEN ExportedAs(i) = {}
            ELSE ExportedAs(i) = {ExportName(net_state[i].k)}

(***************************************************************************)
(* C7, amended: as stated, unless a later key of the state dict gets the   *)
(* same name: then the tensor of the earlier key is not in the file, and   *)
(* the name holds the tensor of the last key that gets it.                 *)
(***************************************************************************)
C7_FirstMatchWins ==
    (net_last.op = "save" /\ ~net_last.remap.none) =>
        \A i \in DOMAIN net_state :
            IF Matches(net_state[i].k) = {} THEN ExportedAs(i) = {}
            ELSE /\ ExportName(net_state[i].k) \in Names(net_file.w)
                 /\ IF LaterSameName(i) = {}
                    THEN ExportedAs(i) = {ExportName(net_state[i].k)}
                    ELSE ExportedAs(i) = {}

\* a save with two tuples: one key matches neither, one key matches both, which name it differently
C7_Witness ==
    /\ net_last.op = "save" /\ ~net_last.remap.none
    /\ Len(SavedRules) = 2
    /\ \E i \in DOMAIN net_state : Matches(net_state[i].k) = {}
    /\ \E i \in DOMAIN net_state :
          /\ Matches(net_state[i].k) = {1, 2}
          /\ re_sub(SavedRules[1][1], SavedRules[1][2], net_state[i].k)
                # re_sub(SavedRules[2][1], SavedRules[2][2], net_state[i].k)
          /\ ExportedAs(i) = {re_sub(SavedRules[1][1], SavedRules[1][2], net_state[i].k)}

(***************************************************************************)
(* C8: load called without a strict argument on a weights file whose key   *)
(* set differs from the network's logs the partial-update warning, does    *)
(* not fail, and every parameter whose key is in the file has the file's   *)
(* content.                                                                *)
(***************************************************************************)
C8_DefaultPartialLoad ==
    (net_last.op = "load" /\ ~net_last.given /\ Names(net_file.w) # Names(net_last.before)) =>
        /\ net_last.warned
        /\ net_last.exc = "none"
        /\ \A i \in DOMAIN net_state :
              net_state[i].k \in Names(net_file.w) =>
                  net_state[i].v.val = Lookup(net_file.w, net_state[i].k).val

\* the elements of l applied to data one after another: the last element is
\* applied to what the elements before it give
RECURSIVE InOrder(_, _)
InOrder(l, data) ==
    IF l = <<>> THEN data
    ELSE Tf(l[Len(l)], InOrder(SubSeq(l, 1, Len(l) - 1), data))

(***************************************************************************)
(* C9: calling a Compose with data returns its current elements applied to *)
(* the data one after another in list order, whatever append, insert, del  *)
(* and extend calls made the list; an empty Compose returns the data.      *)
(***************************************************************************)
C9_AppliedInListOrder ==
    cp_last.op = "call" =>
        /\ cp_last.result = InOrder(cp_list, cp_last.data)
        /\ cp_list = <<>> => cp_last.result = cp_last.data

\* a call on three elements made with all four list operations, whose result
\* another order of application would not give
C9_Witness ==
    /\ cp_last.op = "call"
    /\ cp_used = {"append", "insert", "del", "extend"}
    /\ Len(cp_list) = 3
    /\ cp_last.result # Tf(cp_list[1], Tf(cp_list[2], Tf(cp_list[3], cp_last.data)))
    /\ cp_last.result # Tf(cp_list[3], Tf(cp_list[1], Tf(cp_list[2], cp_last.data)))

\* the override the claim names for a supported runtime type
OverrideFor(kind) ==
    CASE kind = "DataFrame" -> "_tf_anno"
      [] kind = "PIL" -> "_tf_pil"
      [] kind = "ndarray" -> "_tf_cv"
Supported(v) == v.kind \in {"DataFrame", "PIL", "ndarray"}
\* the transform of v by the object obj: for a supported value the result of its override
TransformOf(obj, v) == IF Supported(v) THEN Override(OverrideFor(v.kind), obj, v) ELSE v
\* the invocations the transforms of the values vs by obj consist of
RECURSIVE InvocationsOf(_, _)
InvocationsOf(obj, vs) ==
    IF vs = <<>> THEN <<>>
    ELSE (IF Supported(vs[1]) THEN <<Invocation(OverrideFor(vs[1].kind), obj, vs[1])>> ELSE <<>>)
         \o InvocationsOf(obj, Tail(vs))

(***************************************************************************)
(* C10: __call__ on a supported input invokes exactly one override, the    *)
(* one for its type (_tf_anno for a dataframe, _tf_pil for a PIL image,    *)
(* _tf_cv for a numpy array), and returns its result; apply with a target  *)
(* returns the pair (transform of data, transform of target), both made by *)
(* one and the same object, and only the transformed data when target is   *)
(* None.                                                                   *)
(***************************************************************************)
C10_DispatchAndApply ==
    /\ (mt_last.op = "call" /\ Supported(mt_last.data)) =>
          /\ mt_log = <<Invocation(OverrideFor(mt_last.data.kind), mt_last.obj, mt_last.data)>>
          /\ mt_last.result = Single(Override(OverrideFor(mt_last.data.kind), mt_last.obj, mt_last.data))
    /\ (mt_last.op = "apply" /\ mt_last.target # NoneValue) =>
          /\ mt_last.result = Pair(TransformOf(mt_last.obj, mt_last.data),
                                   TransformOf(mt_last.obj, mt_last.target))
          /\ mt_log = InvocationsOf(mt_last.obj, <<mt_last.data, mt_last.target>>)
          /\ \A i \in DOMAIN mt_log : mt_log[i].obj = mt_last.obj
    /\ (mt_last.op = "apply" /\ mt_last.target = NoneValue) =>
          /\ mt_last.result = Single(TransformOf(mt_last.obj, mt_last.data))
          /\ mt_log = InvocationsOf(mt_last.obj, <<mt_last.data>>)

\* apply on an image with an annotation dataframe as target, after other objects were made
C10_Witness ==
    /\ mt_last.op = "apply"
    /\ mt_last.obj > 1
    /\ mt_last.data.kind \in {"PIL", "ndarray"}
    /\ mt_last.target.kind = "DataFrame"
    /\ mt_last.result.pair
    /\ Len(mt_log) = 2
    /\ mt_log[1].fn # mt_log[2].fn

(***************************************************************************)
(* C11: __call__ on an input that is neither None, a dataframe, a PIL      *)
(* image nor a numpy array logs an error for it, calls no override and     *)
(* returns the input itself; on None it returns None, calls no override    *)
(* and logs nothing.                                                       *)
(***************************************************************************)
C11_UnsupportedPassthrough ==
    mt_last.op = "call" =>
        /\ (mt_last.data # NoneValue /\ ~Supported(mt_last.data)) =>
              /\ mt_errors = <<mt_last.data>>
              /\ mt_log = <<>>
              /\ mt_last.result = Single(mt_last.data)
        /\ mt_last.data = NoneValue =>
              /\ mt_errors = <<>>
              /\ mt_log = <<>>
              /\ mt_last.result = Single(NoneValue)

\* a call with a string, on an object that is not the first one made
C11_Witness ==
    /\ mt_last.op = "call"
    /\ mt_last.obj > 1
    /\ mt_last.data.kind = "str"
    /\ mt_errors = <<mt_last.data>>
    /\ mt_last.result.data = mt_last.data

\* the variable the last from_file call named, as the module defines it
Extracted == cfg.vars[ff_last.variable]

(***************************************************************************)
(* C12: from_file on an imported configuration module: an absent variable  *)
(* raises AttributeError; a callable value is called, once, with the extra *)
(* kwargs, and a value that is not callable is not called; if the          *)
(* resulting value is a HyperParameters object that same object is         *)
(* returned, if it is a dict a new HyperParameters built from its items is *)
(* returned, and for any other type TypeError is raised.                   *)
(***************************************************************************)
C12_FromFileOutcomes ==
    (ff_last.op = "from_file" /\ cfg.import = "module") =>
        IF Extracted = Absent
        THEN ff_last.res.exc = "AttributeError" /\ ff_last.res.calls = <<>>
        ELSE /\ ff_last.res.calls = IF Extracted.t = "function" THEN <<ff_last.kwargs>> ELSE <<>>
             /\ Extracted.t # "function" => ff_last.res.params = Extracted
             /\ (Extracted.t = "function" /\ FnCall(Extracted, ff_last.kwargs).exc = "none") =>
                    ff_last.res.params = FnCall(Extracted, ff_last.kwargs).v
             /\ ff_last.res.params.t = "HyperParameters" =>
                    /\ ff_last.res.exc = "none"
                    /\ ff_last.res.obj = ff_last.res.params
                    /\ ~ff_last.res.made
             /\ ff_last.res.params.t = "dict" =>
                    /\ ff_last.res.exc = "none"
                    /\ ff_last.res.made
                    /\ ff_last.res.obj.t = "HyperParameters"
                    /\ ff_last.d = Ctor(ff_last.res.params.kw)
             /\ ff_last.res.params.t \in {"int", "function"} =>
                    ff_last.res.exc = "TypeError"

\* a callable that was called with a keyword and returned a dict, from which
\* the object returned was built
C12_Witness ==
    /\ ff_last.op = "from_file"
    /\ cfg.import = "module"
    /\ Extracted.t = "function"
    /\ ff_last.kwargs # <<>>
    /\ ff_last.res.calls = <<ff_last.kwargs>>
    /\ ff_last.res.params.t = "dict"
    /\ ff_last.res.made
    /\ Has(ff_last.d, Name(0, "a"))

\* the modules of mods applied to x in declared order: the last one is applied
\* to what the ones before it give
RECURSIVE InDeclaredOrder(_, _)
InDeclaredOrder(mods, x) ==
    IF mods = <<>> THEN x
    ELSE Module(mods[Len(mods)], InDeclaredOrder(SubSeq(mods, 1, Len(mods) - 1), x))

(***************************************************************************)
(* C13: the default forward applies the sub-layers of self.layers in       *)
(* declared order when self.layers is a Sequential or a ModuleList, with a *)
(* warning for a ModuleList (and none for a Sequential), and raises        *)
(* NotImplementedError, applying no layer, when self.layers is anything    *)
(* else, including the None that __init__ sets.                            *)
(***************************************************************************)
C13_DefaultForward ==
    fw_last.op = "forward" =>
        IF fw_layers.kind \in {"Sequential", "ModuleList"}
        THEN /\ fw_last.res.exc = "none"
             /\ fw_last.res.applied = fw_layers.mods
             /\ fw_last.res.out = InDeclaredOrder(fw_layers.mods, fw_last.x)
             /\ fw_last.res.warned = (fw_layers.kind = "ModuleList")
        ELSE /\ fw_last.res.exc = "NotImplementedError"
             /\ fw_last.res.applied = <<>>

\* forward over a ModuleList of three layers whose order matters
C13_Witness ==
    /\ fw_last.op = "forward"
    /\ fw_layers.kind = "ModuleList"
    /\ Len(fw_layers.mods) = 3
    /\ fw_last.res.warned
    /\ fw_last.res.out # Module(fw_layers.mods[1], Module(fw_layers.mods[2], Module(fw_layers.mods[3], fw_last.x)))

\* the product of the strides of the base layers from the i-th on
RECURSIVE StrideProduct(_)
StrideProduct(i) ==
    IF i > Len(BaseLayers) THEN 1 ELSE BaseLayers[i].stride * StrideProduct(i + 1)

(***************************************************************************)
(* C14: Darknet.stride is the subsampling factor of the network: it is the *)
(* product of the strides of the base layers, and an input whose width and *)
(* height are multiples of the stride leaves the base layers with size     *)
(* (W / stride) x (H / stride).                                            *)
(***************************************************************************)
C14_StrideIsSubsampling ==
    (/\ dk_last.op = "base"
     /\ dk_input[1] % stride = 0
     /\ dk_input[2] % stride = 0) =>
        /\ stride = StrideProduct(1)
        /\ dk_last.res.exc = "none"
        /\ dk_last.res.w = dk_input[1] \div stride
        /\ dk_last.res.h = dk_input[2] \div stride

\* a 2D list: an iterable whose elements are themselves iterables of numbers
Is2D(a) == a.iterable /\ \A i \in DOMAIN a.elems : a.elems[i] = "tuple"

(***************************************************************************)
(* C15: constructing Yolt with an anchors argument that is not a 2D list,  *)
(* for example a flat list of numbers, raises                              *)
(* TypeError('Anchors need to be a 2D list of numbers') and builds no      *)
(* network.                                                                *)
(***************************************************************************)
C15_AnchorsTypeError ==
    (yl_last.op = "new" /\ ~Is2D(yl_last.anchors)) =>
        /\ yl_last.res.exc = "TypeError"
        /\ yl_last.res.msg = "Anchors need to be a 2D list of numbers"
        /\ ~yl_last.res.built

\* the first keyword of kwargs that is stored under the name x
FirstGiven(kwargs, x) ==
    kwargs[CHOOSE j \in DOMAIN kwargs :
              Target(kwargs[j].k) = x /\ \A h \in 1 .. (j - 1) : Target(kwargs[h].k) # x]
\* a constructor keyword whose name is already an attribute overwrites nothing:
\* batch and epoch are 0, a name given twice keeps the value given first
C16_Kwargs ==
    (hp_last.op = "init") =>
        \A i \in 1 .. Len(hp_last.kwargs) :
           Target(hp_last.kwargs[i].k) \in AttrsAtKwarg(hp_last.kwargs, i) =>
              IF Target(hp_last.kwargs[i].k) \in {Name(0, "batch"), Name(0, "epoch")}
              THEN Get(hp, Target(hp_last.kwargs[i].k)) = Raw(0)
              ELSE /\ Get(hp, Target(hp_last.kwargs[i].k))
                         = FirstGiven(hp_last.kwargs, Target(hp_last.kwargs[i].k)).v
                   /\ FirstGiven(hp_last.kwargs, Target(hp_last.kwargs[i].k)) # hp_last.kwargs[i]
\* the step is an assignment param.<name> = value
IsSetattr == hp_last'.op = "setattr" /\ hp_ops' = hp_ops + 1

(***************************************************************************)
(* C16, as stated: after construction, an assignment to _x on a container  *)
(* that holds an attribute x raises AttributeError and changes no          *)
(* attribute and not the list of non-serialized names; a constructor       *)
(* keyword whose name, without its leading underscore, is already an       *)
(* attribute does not overwrite the value.                                 *)
(***************************************************************************)
C16_AsStated ==
    /\ []C16_Kwargs
    /\ [][(IsSetattr /\ hp_last'.name.u > 0 /\ Has(hp, Strip(hp_last'.name))) =>
             (hp_last'.exc = "AttributeError" /\ hp' = hp)]_vars

(***************************************************************************)
(* C16, amended: as stated, for a container that holds x and no attribute  *)
(* named _x itself (an existing attribute _x, stored by an earlier __x, is *)
(* overwritten without an error).                                          *)
(***************************************************************************)
C16_ExistingNotOverwritten ==
    /\ []C16_Kwargs
    /\ [][(/\ IsSetattr /\ hp_last'.name.u > 0
           /\ Has(hp, Strip(hp_last'.name))
           /\ ~Has(hp, hp_last'.name)) =>
             (hp_last'.exc = "AttributeError" /\ hp' = hp)]_vars

\* param._a = value raised AttributeError on a container that held a object as a
C16_Witness ==
    /\ hp_last.op = "setattr"
    /\ hp_last.name = Name(1, "a")
    /\ hp_last.exc = "AttributeError"
    /\ Name(0, "a") \in hp_last.had
    /\ Name(1, "a") \notin hp_last.had
    /\ Get(hp, Name(0, "a")).t = "obj"
    /\ Get(hp, Name(0, "a")) # hp_last.value

(***************************************************************************)
(* C17: DataLoader.__init__ selects its sampling from shuffle, sampler and *)
(* batch_sampler with the same result whether each is passed by position   *)
(* or by keyword: a given batch_sampler is used as is; otherwise a         *)
(* BatchSampler with the dataset's input_dim is built over the given       *)
(* sampler, or over a RandomSampler when shuffle is true and a             *)
(* SequentialSampler when it is false.                                     *)
(***************************************************************************)
C17_PositionalAsKeyword ==
    (dl_last.op = "new" /\ dl_last.res.exc = "none") =>
        IF dl_last.call.batch_sampler # "None"
        THEN dl_last.res.batch_sampler = SamplerObj(dl_last.call.batch_sampler, "None", None)
        ELSE dl_last.res.batch_sampler
                = SamplerObj("BatchSampler",
                             IF dl_last.call.sampler # "None" THEN dl_last.call.sampler
                             ELSE IF dl_last.call.shuffle = "True" THEN "RandomSampler"
                             ELSE "SequentialSampler",
                             dl_last.dim)

(***************************************************************************)
(* C18: when the wrapped __getitem__ raises during an access with a        *)
(* (dimension, index) pair, the override of that access is removed: after  *)
(* the exception input_dim is the constructor default, and a following     *)
(* plain-integer access sees the default dimension.                        *)
(***************************************************************************)
C18_OverrideRemovedOnRaise ==
    last.how = "raised" =>
        /\ access.pc = "idle" => (~override.has /\ InputDim = default_input_dim)
        /\ (access.pc = "running" /\ ~access.arg.pair) => InputDim = default_input_dim

====
